---- MODULE Spec2Model ----
(***************************************************************************)
(* Plantos MCP server (src/src/plantos_mcp/server.py).                     *)
(*                                                                         *)
(* The tool gateway handle_call_tool, its two transports (the stdio        *)
(* channel and the FastAPI endpoints /mcp/list-tools and /mcp/call-tool)   *)
(* and the process-wide credential PLANTOS_API_KEY.  A handler is a        *)
(* coroutine: one action runs it from one suspension point (await) to the  *)
(* next, so the interleavings of the actions are the interleavings the     *)
(* event loop can produce.                                                 *)
(***************************************************************************)
EXTENDS Integers, Sequences, FiniteSets, TLC

VARIABLES
    TRANSPORT_MODE,   \* "stdio" or "http" (server.py:37), fixed at start-up
    env_api_key,      \* os.getenv("PLANTOS_API_KEY") at start-up (server.py:36)
    PLANTOS_API_KEY,  \* the module global (server.py:36, written at 694 and 708)
    req,              \* the handler frames: slot -> the locals of one request
    flow,             \* installer/auth.py: the locals of authenticate_user and what it
                      \* has done so far
    fmt,              \* a call of one of the category formatters: its argument and
                      \* what it ended with
    ui,               \* installer/installer.py: the window, the Tk event queues, the
                      \* suspended handlers and the background flows
    cfg               \* installer/config_editor.py: one configuration file and the
                      \* last calls made on its path

vars == <<TRANSPORT_MODE, env_api_key, PLANTOS_API_KEY, req, flow, fmt, ui, cfg>>

-----------------------------------------------------------------------------
(* Bounds *)

\* Handler frames that may be in flight at once in the concurrent specification.
MaxInFlight == 2

Slots == 1..MaxInFlight

-----------------------------------------------------------------------------
(* Values *)

\* Python None where a credential is expected (unset variable, absent header).
NoKey == "None"
\* A local variable that holds nothing (not yet assigned, or its frame is gone).
Unset == "-"

\* Credentials that requests carry, and the one the environment may hold.
RequestKeys == {"K1", "K2"}
EnvKeys == {NoKey, "K0"}
\* What an X-API-Key header can be: absent, empty, or a credential.
HeaderKeys == {NoKey, ""} \cup RequestKeys

\* A field of an arguments mapping: <<>> when the key is absent, <<v>> when present.
Absent == <<>>

EmptyArgs ==
    [latitude |-> Absent, longitude |-> Absent, crops |-> Absent,
     message |-> Absent, context |-> Absent]

\* The arguments mappings requests are drawn from.  91 and -91 are latitudes and
\* 181 a longitude outside the ranges the catalog declares.
ArgMaps ==
    [latitude : {Absent, <<45>>, <<91>>, <<-91>>},
     longitude : {Absent, <<10>>, <<181>>},
     crops : {Absent, <<"corn,wheat">>},
     message : {Absent, <<"hello">>},
     context : {Absent, <<"ctx">>}]

\* The `arguments` parameter: <<>> is Python None, <<a>> is the mapping a.
ArgInputs == {<<>>} \cup {<<a>> : a \in ArgMaps}

-----------------------------------------------------------------------------
(* The tool catalog: handle_list_tools *)

LatMin == -90
LatMax == 90
LonMin == -180
LonMax == 180

\* name, the schema's "required" list, and whether the schema has coordinates.
Catalog ==
    << [name |-> "analyze_farm_location", required |-> {"latitude", "longitude"}, coords |-> TRUE],
       [name |-> "get_soil_data", required |-> {"latitude", "longitude"}, coords |-> TRUE],
       [name |-> "get_weather_data", required |-> {"latitude", "longitude"}, coords |-> TRUE],
       [name |-> "get_market_data", required |-> {"crops"}, coords |-> TRUE],
       [name |-> "get_market_summary", required |-> {}, coords |-> TRUE],
       [name |-> "chat_with_agricultural_advisor", required |-> {"message"}, coords |-> FALSE],
       [name |-> "get_api_health", required |-> {}, coords |-> FALSE] >>

CatalogNames == {Catalog[i].name : i \in 1..Len(Catalog)}

Descriptor(name) == CHOOSE d \in {Catalog[i] : i \in 1..Len(Catalog)} : d.name = name

\* Tool names requests are drawn from: the catalog, two names outside it, and the
\* empty name.
NameInputs == CatalogNames \cup {"bogus_tool", "GET_API_HEALTH", ""}

-----------------------------------------------------------------------------
(* The backend *)

\* Bodies of a backend response.  On a 2xx response the body is the payload:
\*   not_json      text that response.json() cannot parse
\*   array         a non-empty JSON array (no .get, no .items)
\*   empty_object  {}
\*   bad_fields    an object whose known fields hold values of the wrong shape
\*                 (a list where a mapping is read, text where a number is
\*                 formatted) and which lacks 'response'
\*   full          an object with every field the tool's branch reads, well typed
\* On any other response it is the raw error text.
PayloadShapes == {"not_json", "array", "empty_object", "bad_fields", "full"}
ErrorBodies == {"not_json", "empty_object"}

SuccessStatuses == {200}
FailureStatuses == {302, 401, 403, 404, 500}

TransportFailures == {"TimeoutException", "ConnectError", "SSLError"}

\* What the awaited client.get / client.post can end with.
Outcomes ==
    [kind : {"response"}, status : SuccessStatuses, body : PayloadShapes]
    \cup [kind : {"response"}, status : FailureStatuses, body : ErrorBodies]
    \cup [kind : TransportFailures, status : {0}, body : {""}]

\* No backend call has ended.
NoOutcome == [kind |-> "", status |-> 0, body |-> ""]

-----------------------------------------------------------------------------
(* handle_call_tool: the pure parts *)

\* The names the if/elif chain compares `name` with.
DispatchNames ==
    {"analyze_farm_location", "get_soil_data", "get_weather_data", "get_market_data",
     "get_market_summary", "chat_with_agricultural_advisor", "get_api_health"}

\* Branch with the last elif written as the else: any other name runs the health
\* branch.
BranchLastAsElse(name) == IF name \in DispatchNames THEN name ELSE "get_api_health"

\* The branch of the chain that runs for `name`.
Branch(name) == IF name \in DispatchNames THEN name ELSE "else"

\* Route with the soil and weather paths exchanged.
RouteSwapped(name) ==
    CASE name = "analyze_farm_location" -> [method |-> "POST", path |-> "/api/v1/analyze-location"]
      [] name = "get_soil_data" -> [method |-> "GET", path |-> "/api/v1/weather-data"]
      [] name = "get_weather_data" -> [method |-> "GET", path |-> "/api/v1/soil-data"]
      [] name = "get_market_data" -> [method |-> "GET", path |-> "/api/v1/market-data"]
      [] name = "get_market_summary" -> [method |-> "GET", path |-> "/api/v1/market-summary"]
      [] name = "chat_with_agricultural_advisor" -> [method |-> "POST", path |-> "/api/v1/chat"]
      [] name = "get_api_health" -> [method |-> "GET", path |-> "/api/v1/health"]

\* Method and path of the request each branch sends.
Route(name) ==
    CASE name = "analyze_farm_location" -> [method |-> "POST", path |-> "/api/v1/analyze-location"]
      [] name = "get_soil_data" -> [method |-> "GET", path |-> "/api/v1/soil-data"]
      [] name = "get_weather_data" -> [method |-> "GET", path |-> "/api/v1/weather-data"]
      [] name = "get_market_data" -> [method |-> "GET", path |-> "/api/v1/market-data"]
      [] name = "get_market_summary" -> [method |-> "GET", path |-> "/api/v1/market-summary"]
      [] name = "chat_with_agricultural_advisor" -> [method |-> "POST", path |-> "/api/v1/chat"]
      [] name = "get_api_health" -> [method |-> "GET", path |-> "/api/v1/health"]

\* Subscripted with crops and message read by arguments.get, which never raises.
SubscriptedCoordsOnly(name) ==
    CASE name \in {"analyze_farm_location", "get_soil_data", "get_weather_data"} ->
            <<"latitude", "longitude">>
      [] OTHER -> <<>>

\* The keys each branch subscripts (arguments["k"]) while it builds its request, in
\* evaluation order.  A subscript of an absent key raises KeyError.
Subscripted(name) ==
    CASE name \in {"analyze_farm_location", "get_soil_data", "get_weather_data"} ->
            <<"latitude", "longitude">>
      [] name = "get_market_data" -> <<"crops">>
      [] name = "chat_with_agricultural_advisor" -> <<"message">>
      [] OTHER -> <<>>

\* The first subscripted key that `a` lacks, "" when it has them all.
FirstMissing(name, a) ==
    LET fs == Subscripted(name)
        miss == {i \in 1..Len(fs) : a[fs[i]] = Absent}
    IN  IF miss = {} THEN ""
        ELSE fs[CHOOSE i \in miss : \A j \in miss : i <= j]

\* Where the branch puts its parameters, and which.
Carrier(name) ==
    CASE name \in {"analyze_farm_location", "chat_with_agricultural_advisor"} -> "json"
      [] name = "get_api_health" -> "none"
      [] OTHER -> "params"

\* A variant whose market branches never pass the longitude on.
ParamsWithoutLongitude(name, a) ==
    CASE name \in {"analyze_farm_location", "get_soil_data", "get_weather_data"} ->
            [EmptyArgs EXCEPT !.latitude = a.latitude, !.longitude = a.longitude]
      [] name = "get_market_data" ->
            [EmptyArgs EXCEPT !.crops = a.crops, !.latitude = a.latitude]
      [] name = "get_market_summary" ->
            [EmptyArgs EXCEPT !.latitude = a.latitude]
      [] name = "chat_with_agricultural_advisor" ->
            [EmptyArgs EXCEPT !.message = a.message,
                              !.context = IF a.context = Absent THEN <<"{}">> ELSE a.context]
      [] OTHER -> EmptyArgs

Params(name, a) ==
    CASE name \in {"analyze_farm_location", "get_soil_data", "get_weather_data"} ->
            [EmptyArgs EXCEPT !.latitude = a.latitude, !.longitude = a.longitude]
      [] name = "get_market_data" ->
            [EmptyArgs EXCEPT !.crops = a.crops, !.latitude = a.latitude,
                              !.longitude = a.longitude]
      [] name = "get_market_summary" ->
            [EmptyArgs EXCEPT !.latitude = a.latitude, !.longitude = a.longitude]
      [] name = "chat_with_agricultural_advisor" ->
            [EmptyArgs EXCEPT !.message = a.message,
                              !.context = IF a.context = Absent THEN <<"{}">> ELSE a.context]
      [] OTHER -> EmptyArgs

\* The verify argument of httpx.AsyncClient: the path of a certificate bundle, the
\* system's on Darwin and certifi's elsewhere.
ssl_cert_file == "bundle"

\* headers = {"X-API-Key": PLANTOS_API_KEY, ...}: the request carries the global's
\* value at the time the headers are built, and goes out through the client made with
\* verify=ssl_cert_file.
BuildCall(name, a, key) ==
    [method |-> Route(name).method, path |-> Route(name).path,
     carrier |-> Carrier(name), params |-> Params(name, a), key |-> key,
     verify |-> ssl_cert_file]

\* Results of running the body of the try block: it returns a text or raises.
Return(text) == [raised |-> FALSE, text |-> text, exc |-> "", status |-> 0, msg |-> ""]
Raise(exc, status, msg) ==
    [raised |-> TRUE, text |-> [form |-> "", tool |-> "", status |-> 0, detail |-> ""],
     exc |-> exc, status |-> status, msg |-> msg]

\* The texts the handler returns.  `detail` stands for the interpolated part.
UnknownToolText(name) == [form |-> "Unknown tool", tool |-> name, status |-> 0, detail |-> ""]
ContentText(name, body) == [form |-> "Content", tool |-> name, status |-> 0, detail |-> body]
AuthErrorText(detail) ==
    [form |-> "Authentication Error", tool |-> "", status |-> 0, detail |-> detail]
\* ApiErrorText without the response body.
ApiErrorTextNoBody(status, detail) ==
    [form |-> "Error calling Plantos API", tool |-> "", status |-> status, detail |-> ""]
ApiErrorText(status, detail) ==
    [form |-> "Error calling Plantos API", tool |-> "", status |-> status, detail |-> detail]
ExecErrorText(msg) ==
    [form |-> "Error executing tool", tool |-> "", status |-> 0, detail |-> msg]

\* response.raise_for_status(): httpx raises HTTPStatusError unless the status is 2xx.
IsSuccess(status) == status >= 200 /\ status <= 299

\* Does the branch's formatting of a parsed payload raise?  data.get / data.items
\* need a mapping; the formatters that index or number-format fields need them
\* well shaped; the chat branch subscripts data['response'].
RenderRaises(name, body) ==
    CASE body = "array" -> TRUE
      [] body = "full" -> FALSE
      [] body = "empty_object" -> name = "chat_with_agricultural_advisor"
      [] body = "bad_fields" ->
            name \in {"analyze_farm_location", "get_weather_data", "get_market_data",
                      "chat_with_agricultural_advisor"}
      [] OTHER -> TRUE

\* The branch after its await: raise_for_status, response.json(), the formatting.
AfterResponse(name, out) ==
    IF out.kind # "response" THEN Raise(out.kind, 0, out.kind)
    ELSE IF ~IsSuccess(out.status) THEN Raise("HTTPStatusError", out.status, out.body)
    ELSE IF out.body = "not_json" THEN Raise("JSONDecodeError", 0, "Expecting value")
    ELSE IF RenderRaises(name, out.body) THEN Raise("RenderError", 0, out.body)
    ELSE Return(ContentText(name, out.body))

\* IsAuthStatus that knows 401 only.
IsAuthStatus401(status) == status = 401

\* e.response.status_code in [401, 403]
IsAuthStatus(status) == status \in {401, 403}

\* ExceptClauses without the `except Exception` clause: what is no HTTPStatusError
\* propagates.
ExceptStatusErrorOnly(r) ==
    IF ~r.raised THEN r
    ELSE IF r.exc = "HTTPStatusError"
         THEN IF r.status \in {401, 403} THEN Return(AuthErrorText(r.msg))
              ELSE Return(ApiErrorText(r.status, r.msg))
         ELSE r

\* The except clauses: HTTPStatusError first, then Exception, which every exception
\* raised in the try block is.
ExceptClauses(r) ==
    IF ~r.raised THEN r
    ELSE IF r.exc = "HTTPStatusError"
         THEN IF IsAuthStatus(r.status) THEN Return(AuthErrorText(r.msg))
              ELSE Return(ApiErrorText(r.status, r.msg))
         ELSE Return(ExecErrorText(r.msg))

\* if arguments is None: arguments = {}
NormArgs(arguments) == IF arguments = <<>> THEN EmptyArgs ELSE arguments[1]

\* Issue that sends the request a second time.
IssueTwice(calls, call) == Append(Append(calls, call), call)

\* await client.get(...) / client.post(...): the request goes out once.
Issue(calls, call) == Append(calls, call)

\* The try block from the entry of `async with` to its first await of the backend,
\* run with the global holding `key`.  The certificate bundle is taken to resolve
\* (platform.system / certifi.where name an existing file), so the client is
\* built.  Either the block ends there (the else branch
\* returns, a subscript raises KeyError, or httpx refuses the header value None
\* with TypeError while it builds the request, before any I/O), or it sends
\* one request and suspends.
BeforeAwait(name, a, key, calls) ==
    LET b == Branch(name) IN
    IF b = "else"
    THEN [sent |-> FALSE, calls |-> calls, r |-> Return(UnknownToolText(name))]
    ELSE IF FirstMissing(b, a) # ""
    THEN [sent |-> FALSE, calls |-> calls, r |-> Raise("KeyError", 0, FirstMissing(b, a))]
    ELSE IF key = NoKey
    THEN [sent |-> FALSE, calls |-> calls,
          r |-> Raise("TypeError", 0, "Header value must be str or bytes")]
    ELSE [sent |-> TRUE, calls |-> Issue(calls, BuildCall(b, a, key)), r |-> Return(UnknownToolText(""))]

-----------------------------------------------------------------------------
(* installer/auth.py: the device-authorization flow, values *)

\* VERIFY_SSL = False, the verify argument of requests.post and requests.get
VERIFY_SSL == "False"

\* poll_interval = 3
poll_interval == 3
\* data.get('expires_in', 300)
DefaultExpiresIn == 300
\* timeout=10 of requests.post / requests.get
RequestTimeout == 10

\* The largest expires_in the server sends explicitly; without one the default applies.
MaxExpiresIn == 10
\* The clock is exact up to ClockCap seconds and stays there afterwards.
ClockCap == 12

\* A field of a JSON object: <<>> when the key is absent, <<v>> when present.
\* What POST /api/v1/mcp/request-code can end with.  expires_in, when present, is a
\* number of seconds (section 6 of the specification: "expires_in (seconds)").
RequestCodeOutcomes ==
    [kind : {"response"}, status : {200}, json : {"object"},
     code : {<<>>, <<"">>, <<"CODE-A">>, <<"CODE-B">>},
     url : {<<>>, <<"https://plantos.co/activate">>},
     expires_in : {<<>>} \cup {<<n>> : n \in 0..MaxExpiresIn}]
    \cup [kind : {"response"}, status : {200}, json : {"not_json", "array"},
          code : {<<>>}, url : {<<>>}, expires_in : {<<>>}]
    \cup [kind : {"response"}, status : {500}, json : {"object"},
          code : {<<"CODE-A">>}, url : {<<"https://plantos.co/activate">>},
          expires_in : {<<>>}]
    \cup [kind : {"Timeout", "ConnectionError"}, status : {0}, json : {""},
          code : {<<>>}, url : {<<>>}, expires_in : {<<>>}]

NoRequestCodeOutcome ==
    [kind |-> "", status |-> 0, json |-> "", code |-> <<>>, url |-> <<>>, expires_in |-> <<>>]

\* What GET /api/v1/mcp/check-code can end with.  state is the 'status' field of the
\* JSON object ("none" when it has none, "processing" a value the client does not
\* know); api_key its 'api_key' field.
PollOutcomes ==
    [kind : {"response"}, status : {200}, json : {"object"},
     state : {"pending", "expired", "processing", "none"}, api_key : {<<>>}]
    \cup [kind : {"response"}, status : {200}, json : {"object"},
          state : {"authorized"}, api_key : {<<>>, <<"">>, <<"KA">>, <<"KB">>}]
    \cup [kind : {"response"}, status : {200}, json : {"not_json"},
          state : {""}, api_key : {<<>>}]
    \cup [kind : {"response"}, status : {404, 500}, json : {"object"},
          state : {"pending"}, api_key : {<<>>}]
    \cup [kind : {"Timeout", "ConnectionError"}, status : {0}, json : {""},
          state : {""}, api_key : {<<>>}]

NoPollOutcome == [kind |-> "", status |-> 0, json |-> "", state |-> "", api_key |-> <<>>]

\* Seconds a check-code request can take: it answers at once or only as its timeout
\* ends; a Timeout is raised when the timeout ends.
Latencies(out) == IF out.kind = "Timeout" THEN {RequestTimeout} ELSE {0, RequestTimeout}

\* The clock after d more seconds.
Tick(elapsed, d) == IF elapsed + d > ClockCap THEN ClockCap ELSE elapsed + d

\* The number of calls of authenticate_user followed.
MaxRuns == 2

\* There was no call before this one.
NoEarlier == [code |-> "", expires_in |-> 0, attempt |-> 0]

\* authenticate_user has not been called.  The locals (code, verification_url,
\* expires_in, max_attempts, attempt, result) and the record of what the call did:
\*   pc             idle, requesting (waits for request-code), loop (head of the for
\*                  loop), polling (waits for check-code), done (has returned)
\*   ended          the return taken: Authorized, Expired, TimedOut, Failed
\*   request_codes  request-code requests sent;  polls  check-code requests sent
\*   responses      check-code requests that have ended
\*   poll_code      the code parameter of the last check-code request
\*   verify         the verify argument of the last request ("" before the first)
\*   runs           calls of authenticate_user so far, this one included
\*   earlier        code, expires_in and attempt as the call before this one left them
\*   browser        webbrowser.open: not_called, opened, failed (it raised)
\*   elapsed        seconds since the request-code response arrived: the device code
\*                  is at least that old
\*   slept          the last iteration ended with time.sleep(poll_interval)
\*   nonpending     polls that did not end with status pending (2 stands for 2 or more)
\*   had_error      some poll ended with a Timeout or a ConnectionError
\*   rc, last       how request-code and the last poll ended
IdleFlow ==
    [pc |-> "idle", ended |-> "", result |-> <<>>, code |-> "", verification_url |-> "",
     expires_in |-> 0, max_attempts |-> 0, attempt |-> 0,
     request_codes |-> 0, polls |-> 0, responses |-> 0, poll_code |-> "", verify |-> "",
     browser |-> "not_called", elapsed |-> 0, slept |-> FALSE,
     nonpending |-> 0, had_error |-> FALSE,
     rc |-> NoRequestCodeOutcome, last |-> NoPollOutcome,
     runs |-> 0, earlier |-> NoEarlier]

-----------------------------------------------------------------------------
(* server.py: the category formatters *)

\* The longest list handed to a list formatter.
MaxItems == 2

\* What dict.get(key) finds: no such key, JSON null, the number 0, or some other value
\* (a non-empty string or a non-zero number, as the field's type has it).
FieldValues == {"absent", "null", "zero", "value"}

\* `if soil.get(key):`
Truthy(v) == v = "value"
\* `if soil.get(key) is not None:`
NotNone(v) == v \in {"zero", "value"}

\* The fields _format_soil_data and _format_weather_data look at, in order, each with
\* its test and the line it appends.
SoilFields ==
    << [key |-> "soil_texture", test |-> "truthy", line |-> "**Texture:**"],
       [key |-> "drainage_class", test |-> "truthy", line |-> "**Drainage:**"],
       [key |-> "ph_level", test |-> "truthy", line |-> "**pH Level:**"],
       [key |-> "organic_matter_pct", test |-> "truthy", line |-> "**Organic Matter:**"],
       [key |-> "sand_pct", test |-> "not_none", line |-> "**Sand:**"],
       [key |-> "silt_pct", test |-> "not_none", line |-> "**Silt:**"],
       [key |-> "clay_pct", test |-> "not_none", line |-> "**Clay:**"] >>

WeatherFields ==
    << [key |-> "current_temperature", test |-> "truthy", line |-> "**Temperature:**"],
       [key |-> "max_temperature", test |-> "truthy", line |-> "**Max Temp:**"],
       [key |-> "min_temperature", test |-> "truthy", line |-> "**Min Temp:**"],
       [key |-> "avg_relative_humidity", test |-> "truthy", line |-> "**Humidity:**"],
       [key |-> "total_precipitation", test |-> "truthy", line |-> "**Precipitation:**"],
       [key |-> "growing_degree_days", test |-> "truthy", line |-> "**Growing Degree Days:**"],
       [key |-> "wind_speed_mph", test |-> "truthy", line |-> "**Wind Speed:**"] >>

KeysOf(fields) == {fields[i].key : i \in 1..Len(fields)}

\* A JSON object handed to a mapping formatter: what .get finds under each key the
\* formatter knows, and whether the object has other keys besides.
Mappings(fields) == [extra : BOOLEAN, get : [KeysOf(fields) -> FieldValues]]

\* `not soil`: the object has no key at all.
IsEmptyMapping(m) == ~m.extra /\ \A k \in DOMAIN m.get : m.get[k] = "absent"

\* An element of a JSON array handed to a list formatter: null, a string, or an object
\* with its crop_type ("absent", "null" or a string: "value") and its numeric fields,
\* the ones the formatter prints with a format specification ("absent": none is there,
\* "null": one of them is null, "value": they are numbers).
Items ==
    [json : {"null", "string"}, crop_type : {"absent"}, numbers : {"absent"}]
    \cup [json : {"object"}, crop_type : {"absent", "null", "value"},
          numbers : {"absent", "null", "value"}]

RECURSIVE ListsUpTo(_)
ListsUpTo(n) ==
    IF n = 0 THEN {<<>>}
    ELSE ListsUpTo(n - 1) \cup {Append(l, x) : l \in {m \in ListsUpTo(n - 1) : Len(m) = n - 1}, x \in Items}

Lists == ListsUpTo(MaxItems)

\* A formatter returns a text, here the lines that "\n".join puts together, or raises.
Returned(lines) == [raised |-> FALSE, lines |-> lines]
Raised == [raised |-> TRUE, lines |-> <<>>]

\* The lines appended for the fields of m that pass their test.
MappingLines(m, fields) ==
    LET shown(f) == IF f.test = "truthy" THEN Truthy(m.get[f.key]) ELSE NotNone(m.get[f.key])
        kept == SelectSeq(fields, shown)
    IN  [i \in 1..Len(kept) |-> kept[i].line]

format_soil_data(soil) ==
    IF IsEmptyMapping(soil) THEN Returned(<<"*No soil data available*">>)
    ELSE IF MappingLines(soil, SoilFields) # <<>> THEN Returned(MappingLines(soil, SoilFields))
    ELSE Returned(<<"*Soil data incomplete*">>)

format_weather_data(weather) ==
    IF IsEmptyMapping(weather) THEN Returned(<<"*No weather data available*">>)
    ELSE IF MappingLines(weather, WeatherFields) # <<>>
    THEN Returned(MappingLines(weather, WeatherFields))
    ELSE Returned(<<"*Weather data incomplete*">>)

\* item.get(...) on something that is no object, .title() on null, and a format
\* specification applied to null all raise.
ItemRaises(item) == item.json # "object" \/ item.crop_type = "null" \/ item.numbers = "null"

\* .get('crop_type', 'Unknown').title()
CropTitle(item) == IF item.crop_type = "absent" THEN "**Unknown:**" ELSE "**Crop:**"

RECURSIVE LinesOf(_, _)
\* The lines a loop over items appends, n lines for each item that is an object.
LinesOf(items, n) ==
    IF items = <<>> THEN <<>>
    ELSE (IF Head(items).json = "object"
          THEN [i \in 1..n |-> IF i = 1 THEN CropTitle(Head(items))
                               ELSE IF i = 5 /\ n = 5 THEN ""
                               ELSE IF i = 6 THEN "" ELSE "  - field"]
          ELSE <<>>)
         \o LinesOf(Tail(items), n)

format_crop_predictions(predictions) ==
    IF predictions = <<>> THEN Returned(<<"*No predictions available*">>)
    ELSE IF \E i \in 1..Len(predictions) : ItemRaises(predictions[i]) THEN Raised
    ELSE Returned(LinesOf(predictions, 1))

\* The loop skips what is not a dict.
format_market_data(market_data) ==
    IF market_data = <<>> THEN Returned(<<"*No market data available*">>)
    ELSE IF \E i \in 1..Len(market_data) :
              market_data[i].json = "object" /\ ItemRaises(market_data[i])
    THEN Raised
    ELSE Returned(LinesOf(market_data, 5))

format_economic_analysis(economics) ==
    IF economics = <<>> THEN Returned(<<"*No economic analysis available*">>)
    ELSE IF \E i \in 1..Len(economics) : ItemRaises(economics[i]) THEN Raised
    ELSE Returned(LinesOf(economics, 6))

\* "- {rec}" for every element, whatever it is.
format_recommendations(recommendations) ==
    IF recommendations = <<>> THEN Returned(<<"*No recommendations available*">>)
    ELSE Returned([i \in 1..Len(recommendations) |-> "- rec"])

Categories == {"soil", "weather", "crop_predictions", "market", "economics", "recommendations"}

\* What a formatter of the category can be handed.
InputsOf(category) ==
    CASE category = "soil" -> Mappings(SoilFields)
      [] category = "weather" -> Mappings(WeatherFields)
      [] OTHER -> Lists

Format(category, input) ==
    CASE category = "soil" -> format_soil_data(input)
      [] category = "weather" -> format_weather_data(input)
      [] category = "crop_predictions" -> format_crop_predictions(input)
      [] category = "market" -> format_market_data(input)
      [] category = "economics" -> format_economic_analysis(input)
      [] category = "recommendations" -> format_recommendations(input)

\* No formatter is running.
NoFormatCall == [pc |-> "idle", category |-> "", input |-> <<>>, result |-> Returned(<<>>)]

-----------------------------------------------------------------------------
(* The transports *)

\* verify_api_key written as `if x_api_key is None`.
verify_api_key_none_only(x_api_key) == x_api_key # NoKey

\* if not x_api_key: raise HTTPException(401)
verify_api_key(x_api_key) == x_api_key \notin {NoKey, ""}

\* if not tool_name: raise HTTPException(400)
\* A variant without the name check.
HasNameUnchecked(tool_name) == TRUE

HasName(tool_name) == tool_name # ""

\* A catalog that forgets the health tool.
ListedToolsWithoutHealth == [i \in 1..(Len(Catalog) - 1) |-> Catalog[i].name]

\* The names handle_list_tools returns, in order.
ListedTools == [i \in 1..Len(Catalog) |-> Catalog[i].name]

\* The locals of one request handler.  pc is the suspension point it waits at:
\*   idle           no request in this slot
\*   body           http_call_tool at `await request.json()`
\*   client_enter   handle_call_tool at the entry of `async with httpx.AsyncClient`
\*   await_backend  handle_call_tool at `await client.get/post`
\*   done           the handler has returned or raised; the response is not yet sent
IdleFrame ==
    [pc |-> "idle", endpoint |-> "", api_key |-> Unset, name |-> "", arguments |-> <<>>,
     original_key |-> Unset, invoked |-> FALSE, calls |-> <<>>, outcome |-> NoOutcome,
     raised |-> FALSE, status |-> 0, isError |-> FALSE, content |-> <<>>, tools |-> <<>>]

\* try / except Exception / finally of http_call_tool around the gateway's result.
\* A variant that reports every result as an error text.
HttpWrapAsError(r) ==
    [isError |-> TRUE,
     content |-> <<[form |-> "Error", tool |-> "", status |-> 0, detail |-> r.msg]>>]

HttpWrap(r) ==
    IF r.raised
    THEN [isError |-> TRUE,
          content |-> <<[form |-> "Error", tool |-> "", status |-> 0, detail |-> r.msg]>>]
    ELSE [isError |-> FALSE, content |-> <<r.text>>]

\* finally: PLANTOS_API_KEY = original_key
Restore(original_key) == original_key

\* A variant whose stdio path runs the HTTP handler's restore as well.
FinishRestoresAlways(s, r, calls, outcome) ==
    LET f == req[s] IN
    /\ req' = [req EXCEPT ![s] =
                 [f EXCEPT !.pc = "done", !.calls = calls, !.outcome = outcome,
                           !.raised = r.raised, !.status = 200,
                           !.isError = HttpWrap(r).isError,
                           !.content = HttpWrap(r).content,
                           !.original_key = Unset]]
    /\ PLANTOS_API_KEY' = Restore(f.original_key)

\* handle_call_tool ends with r (after its except clauses) and control returns to
\* the transport: the stdio server receives the list or the exception; http_call_tool
\* wraps it and restores the global.  No await lies between the two that reads or
\* writes shared state.
Finish(s, r, calls, outcome) ==
    LET f == req[s] IN
    IF TRANSPORT_MODE = "stdio"
    THEN /\ req' = [req EXCEPT ![s] =
                      [f EXCEPT !.pc = "done", !.calls = calls, !.outcome = outcome,
                                !.raised = r.raised,
                                !.content = IF r.raised THEN <<>> ELSE <<r.text>>]]
         /\ UNCHANGED PLANTOS_API_KEY
    ELSE /\ req' = [req EXCEPT ![s] =
                      [f EXCEPT !.pc = "done", !.calls = calls, !.outcome = outcome,
                                !.raised = r.raised, !.status = 200,
                                !.isError = HttpWrap(r).isError,
                                !.content = HttpWrap(r).content,
                                !.original_key = Unset]]
         /\ PLANTOS_API_KEY' = Restore(f.original_key)

(***************************************************************************)
(* Installer window (src/installer/installer.py).  The window runs on the  *)
(* Tk main thread: a handler runs until it returns, except that every      *)
(* update_status ends in self.update(), which dispatches the events that   *)
(* are pending at that moment (clicks and `after` callbacks) before it     *)
(* returns.  ui.stack holds the handlers that are suspended inside such a  *)
(* call, innermost last.                                                   *)
(***************************************************************************)
MaxClicks == 2

ApiKeys == {"KA", "KB"}

NoResult == <<>>

\* What authenticate_user hands back: None, or a result with its api_key.
FlowResults == {NoResult} \cup {<<k>> : k \in ApiKeys}

Frame(fn, pc, result) == [fn |-> fn, pc |-> pc, result |-> result]

\* The window after __init__: no key, the button as packed, scan_configs scheduled.
NewInstaller ==
    [button |-> "normal", api_key |-> NoKey, clicks |-> 0, pending |-> 0,
     timers |-> <<[fn |-> "scan_configs", result |-> NoResult]>>, stack |-> <<>>,
     running |-> 0, written |-> <<>>]

(***************************************************************************)
(* Assistant configuration files (src/installer/config_editor.py).  A file *)
(* is missing, holds text that is no JSON, or holds a JSON document in one *)
(* of two layouts; documents are tagged values.                            *)
(***************************************************************************)
JNull == [t |-> "null"]

JString(s) == [t |-> "string", s |-> s]

JArray(items) == [t |-> "array", a |-> items]

JObject(members) == [t |-> "object", m |-> members]

EmptyMembers == [k \in {} |-> JNull]

IsObject(j) == j.t = "object"

Missing == [t |-> "missing"]

Invalid == [t |-> "invalid"]

Text(layout, doc) == [t |-> "text", layout |-> layout, doc |-> doc]

IdleConfig ==
    [file |-> Missing, before |-> Missing, op |-> "-", returned |-> "-",
     prev |-> [op |-> "-", returned |-> "-"]]

Init ==
    /\ TRANSPORT_MODE \in {"stdio", "http"}
    /\ env_api_key \in EnvKeys
    /\ PLANTOS_API_KEY = env_api_key
    /\ req = [s \in Slots |-> IdleFrame]
    /\ flow = IdleFlow
    /\ fmt = NoFormatCall
    /\ ui = NewInstaller
    /\ cfg = IdleConfig

\* The stdio server calls handle_list_tools.
StdioListTools(s) ==
    /\ TRANSPORT_MODE = "stdio"
    /\ req[s].pc = "idle"
    /\ req' = [req EXCEPT ![s] =
                 [IdleFrame EXCEPT !.pc = "done", !.endpoint = "list_tools",
                                   !.tools = ListedTools]]
    /\ UNCHANGED <<TRANSPORT_MODE, env_api_key, PLANTOS_API_KEY, flow, fmt, ui, cfg>>

\* The stdio server calls handle_call_tool(name, arguments), which runs to the
\* entry of `async with`.
StdioCallTool(s, names, inputs) ==
    /\ TRANSPORT_MODE = "stdio"
    /\ req[s].pc = "idle"
    /\ \E n \in names, a \in inputs :
         req' = [req EXCEPT ![s] =
                   [IdleFrame EXCEPT !.pc = "client_enter", !.endpoint = "call_tool",
                                     !.name = n, !.arguments = a, !.invoked = TRUE]]
    /\ UNCHANGED <<TRANSPORT_MODE, env_api_key, PLANTOS_API_KEY, flow, fmt, ui, cfg>>

\* POST /mcp/list-tools
HttpListTools(s) ==
    /\ TRANSPORT_MODE = "http"
    /\ req[s].pc = "idle"
    /\ \E k \in HeaderKeys :
         req' = [req EXCEPT ![s] =
                   IF verify_api_key(k)
                   THEN [IdleFrame EXCEPT !.pc = "done", !.endpoint = "list_tools",
                                          !.api_key = k, !.status = 200,
                                          !.tools = ListedTools]
                   ELSE [IdleFrame EXCEPT !.pc = "done", !.endpoint = "list_tools",
                                          !.api_key = k, !.status = 401]]
    /\ UNCHANGED <<TRANSPORT_MODE, env_api_key, PLANTOS_API_KEY, flow, fmt, ui, cfg>>

\* POST /mcp/call-tool, up to `await request.json()`.
HttpCallTool(s) ==
    /\ TRANSPORT_MODE = "http"
    /\ req[s].pc = "idle"
    /\ \E k \in HeaderKeys :
         req' = [req EXCEPT ![s] =
                   IF verify_api_key(k)
                   THEN [IdleFrame EXCEPT !.pc = "body", !.endpoint = "call_tool",
                                          !.api_key = k]
                   ELSE [IdleFrame EXCEPT !.pc = "done", !.endpoint = "call_tool",
                                          !.api_key = k, !.status = 401]]
    /\ UNCHANGED <<TRANSPORT_MODE, env_api_key, PLANTOS_API_KEY, flow, fmt, ui, cfg>>

\* http_call_tool from the parsed body to the entry of `async with` in
\* handle_call_tool: the name check, the swap of the global, the call.
HttpReadBody(s, names, inputs) ==
    /\ req[s].pc = "body"
    /\ \E n \in names, a \in inputs :
         IF HasName(n)
         THEN /\ req' = [req EXCEPT ![s] =
                           [@ EXCEPT !.pc = "client_enter", !.name = n, !.arguments = a,
                                     !.original_key = PLANTOS_API_KEY, !.invoked = TRUE]]
              /\ PLANTOS_API_KEY' = req[s].api_key
         ELSE /\ req' = [req EXCEPT ![s] =
                           [@ EXCEPT !.pc = "done", !.name = n, !.arguments = a,
                                     !.status = 400]]
              /\ UNCHANGED PLANTOS_API_KEY
    /\ UNCHANGED <<TRANSPORT_MODE, env_api_key, flow, fmt, ui, cfg>>

\* handle_call_tool resumes inside `async with`: it builds the headers from the
\* global, runs the branch for the name and either ends or awaits the backend.
Dispatch(s) ==
    /\ req[s].pc = "client_enter"
    /\ LET f == req[s]
           b == BeforeAwait(f.name, NormArgs(f.arguments), PLANTOS_API_KEY, f.calls)
       IN  IF b.sent
           THEN /\ req' = [req EXCEPT ![s] = [f EXCEPT !.pc = "await_backend",
                                                         !.calls = b.calls]]
                /\ UNCHANGED PLANTOS_API_KEY
           ELSE Finish(s, ExceptClauses(b.r), b.calls, NoOutcome)
    /\ UNCHANGED <<TRANSPORT_MODE, env_api_key, flow, fmt, ui, cfg>>

\* The awaited backend call ends with `out`; the branch and the except clauses run.
BackendRespond(s, outcomes) ==
    /\ req[s].pc = "await_backend"
    /\ \E out \in outcomes :
         Finish(s, ExceptClauses(AfterResponse(Branch(req[s].name), out)), req[s].calls, out)
    /\ UNCHANGED <<TRANSPORT_MODE, env_api_key, flow, fmt, ui, cfg>>

\* The transport sends the response; the handler's frame is gone.
Respond(s) ==
    /\ req[s].pc = "done"
    /\ req' = [req EXCEPT ![s] = IdleFrame]
    /\ UNCHANGED <<TRANSPORT_MODE, env_api_key, PLANTOS_API_KEY, flow, fmt, ui, cfg>>

\* The handler's task is cancelled while it waits: CancelledError is raised at the
\* await.  No except clause catches it (it is no Exception); inside the try block of
\* http_call_tool the finally clause restores the global on the way out.  No response
\* is sent.
Cancel(s) ==
    /\ TRANSPORT_MODE = "http"
    /\ req[s].pc \in {"body", "client_enter", "await_backend"}
    /\ req[s].endpoint = "call_tool"
    /\ req' = [req EXCEPT ![s] = IdleFrame]
    /\ PLANTOS_API_KEY' = IF req[s].pc = "body" THEN PLANTOS_API_KEY
                          ELSE Restore(req[s].original_key)
    /\ UNCHANGED <<TRANSPORT_MODE, env_api_key, flow, fmt, ui, cfg>>

\* One request at a time, every input.
Next ==
    \/ StdioListTools(1)
    \/ StdioCallTool(1, NameInputs, ArgInputs)
    \/ HttpListTools(1)
    \/ HttpCallTool(1)
    \/ HttpReadBody(1, NameInputs, ArgInputs)
    \/ Dispatch(1)
    \/ BackendRespond(1, Outcomes)
    \/ Respond(1)

Spec == Init /\ [][Next]_vars

\* The inputs of the concurrent specification: requests differ in their credential
\* and in how their backend call ends.
ConcNames == {"get_api_health", ""}
ConcInputs == {<<>>}
ConcOutcomes ==
    {[kind |-> "response", status |-> 200, body |-> "full"],
     [kind |-> "response", status |-> 401, body |-> "empty_object"],
     [kind |-> "TimeoutException", status |-> 0, body |-> ""]}

ConcInit == Init /\ TRANSPORT_MODE = "http"

\* The network listener: up to MaxInFlight handlers interleave at their awaits.
ConcNext ==
    \E s \in Slots :
        \/ HttpListTools(s)
        \/ HttpCallTool(s)
        \/ HttpReadBody(s, ConcNames, ConcInputs)
        \/ Dispatch(s)
        \/ BackendRespond(s, ConcOutcomes)
        \/ Respond(s)
        \/ Cancel(s)

ConcSpec == ConcInit /\ [][ConcNext]_vars

-----------------------------------------------------------------------------
(* installer/auth.py: authenticate_user *)

\* A variant that accepts an empty code.
RequestCodeOkEmptyCode(out) ==
    /\ out.kind = "response"
    /\ out.status = 200
    /\ out.json = "object"
    /\ out.code # <<>>
    /\ out.url \notin {<<>>, <<"">>}

\* Step 1 got what it needs: status 200, a JSON object, a non-empty code and a non-empty
\* verification_url.  Everything else returns None: the status check, the `not code or
\* not verification_url` check, and the except clause for what post() or json() or
\* .get() raise.
RequestCodeOk(out) ==
    /\ out.kind = "response"
    /\ out.status = 200
    /\ out.json = "object"
    /\ out.code \notin {<<>>, <<"">>}
    /\ out.url \notin {<<>>, <<"">>}

\* A variant whose default is twice as long.
ExpiresInLongDefault(out) ==
    IF out.expires_in = <<>> THEN 2 * DefaultExpiresIn ELSE out.expires_in[1]

\* expires_in = data.get('expires_in', 300)
ExpiresIn(out) == IF out.expires_in = <<>> THEN DefaultExpiresIn ELSE out.expires_in[1]

\* A variant that rounds up.
MaxAttemptsCeil(expires_in) == (expires_in + poll_interval - 1) \div poll_interval

\* max_attempts = expires_in // poll_interval
MaxAttempts(expires_in) == expires_in \div poll_interval

\* What one iteration of the polling loop does with the way its request ended:
\*   "authorized", "failed", "expired"  return at once
\*   "sleep"                            time.sleep(poll_interval), next iteration
\*   "continue"                         next iteration without sleeping

\* A variant that treats 404 like every other error status.
OnErrorStatusAllContinue(out) == "continue"

\* status_code != 200: 404 returns (code expired), any other status goes on.
OnErrorStatus(out) == IF out.status = 404 THEN "expired" ELSE "continue"

\* A variant that misses the empty api_key.
OnAuthorizedNoneOnly(out) == IF out.api_key = <<>> THEN "failed" ELSE "authorized"

\* status == 'authorized': without an api_key (absent or empty) the flow fails.
OnAuthorized(out) == IF out.api_key \in {<<>>, <<"">>} THEN "failed" ELSE "authorized"

\* A variant that gives up on the first exception.
OnExceptionFails(out) == "failed"

\* except requests.exceptions.Timeout / except Exception: sleep and go on.
OnException(out) == "sleep"

PollVerdict(out) ==
    IF out.kind # "response" THEN OnException(out)
    ELSE IF out.status # 200 THEN OnErrorStatus(out)
    ELSE IF out.json # "object" THEN OnException(out)
    ELSE IF out.state = "authorized" THEN OnAuthorized(out)
    ELSE IF out.state = "expired" THEN "expired"
    ELSE IF out.state = "pending" THEN "sleep"
    ELSE "continue"

\* A variant that returns another flow's code.
AuthResultOtherCode(out, code) ==
    <<[api_key |-> out.api_key[1], email |-> "user@plantos.co", code |-> "CODE-A"]>>

\* A variant that returns the device code in place of the credential.
AuthResultStale(out, code) ==
    <<[api_key |-> code, email |-> "user@plantos.co", code |-> code]>>

\* The dictionary returned on success.
AuthResult(out, code) ==
    <<[api_key |-> out.api_key[1], email |-> "user@plantos.co", code |-> code]>>

\* A variant that has no name for the return after an authorization without api_key.
EndedOfFailedUnnamed(verdict) ==
    CASE verdict = "authorized" -> "Authorized"
      [] verdict = "failed" -> ""
      [] verdict = "expired" -> "Expired"

\* The return statement taken, by the loop's verdict.
EndedOf(verdict) ==
    CASE verdict = "authorized" -> "Authorized"
      [] verdict = "failed" -> "Failed"
      [] verdict = "expired" -> "Expired"

\* authenticate_user() is called and sends the request-code request.
AuthStart ==
    /\ flow.pc = "idle"
    /\ flow' = [IdleFlow EXCEPT !.pc = "requesting", !.request_codes = 1,
                                !.verify = VERIFY_SSL, !.runs = 1]
    /\ UNCHANGED <<TRANSPORT_MODE, env_api_key, PLANTOS_API_KEY, req, fmt, ui, cfg>>

\* A variant in which the loop variable lives on from call to call.
AuthAgainKeepsAttempt ==
    /\ flow.pc = "done"
    /\ flow.runs < MaxRuns
    /\ flow' = [IdleFlow EXCEPT !.pc = "requesting", !.request_codes = 1,
                                !.verify = VERIFY_SSL, !.runs = flow.runs + 1,
                                !.attempt = flow.attempt,
                                !.earlier = [code |-> flow.code,
                                             expires_in |-> flow.expires_in,
                                             attempt |-> flow.attempt]]
    /\ UNCHANGED <<TRANSPORT_MODE, env_api_key, PLANTOS_API_KEY, req, fmt, ui, cfg>>

\* authenticate_user() is called again after it has returned: the locals of the earlier
\* call are gone, the new call starts with its own request-code request.
AuthAgain ==
    /\ flow.pc = "done"
    /\ flow.runs < MaxRuns
    /\ flow' = [IdleFlow EXCEPT !.pc = "requesting", !.request_codes = 1,
                                !.verify = VERIFY_SSL, !.runs = flow.runs + 1,
                                !.earlier = [code |-> flow.code,
                                             expires_in |-> flow.expires_in,
                                             attempt |-> flow.attempt]]
    /\ UNCHANGED <<TRANSPORT_MODE, env_api_key, PLANTOS_API_KEY, req, fmt, ui, cfg>>

\* A variant in which a browser that cannot be opened ends the function.
AfterBrowserFailureEnds(opened) == IF opened = "failed" THEN "done" ELSE "loop"

\* try: webbrowser.open(verification_url) / except Exception: whatever the browser
\* does, the function goes on to the polling loop.
AfterBrowser(opened) == "loop"

\* The request-code request ends; on success the browser is opened (what
\* webbrowser.open does or raises is ignored) and the loop is set up.
RequestCodeRespond(outcomes) ==
    /\ flow.pc = "requesting"
    /\ \E out \in outcomes, opened \in {"opened", "failed"} :
         /\ flow' =
              IF RequestCodeOk(out)
              THEN [flow EXCEPT !.pc = AfterBrowser(opened), !.rc = out,
                                !.code = out.code[1],
                                !.verification_url = out.url[1],
                                !.expires_in = ExpiresIn(out),
                                !.max_attempts = MaxAttempts(ExpiresIn(out)),
                                !.browser = opened]
              ELSE [flow EXCEPT !.pc = "done", !.ended = "Failed", !.rc = out]
    /\ UNCHANGED <<TRANSPORT_MODE, env_api_key, PLANTOS_API_KEY, req, fmt, ui, cfg>>

\* The head of `for attempt in range(max_attempts)` in a call whose locals are f: the
\* next iteration sends its check-code request, or the range is exhausted and the
\* function returns None.
AfterLoopHead(f) ==
    IF f.attempt < f.max_attempts
    THEN [f EXCEPT !.pc = "polling", !.attempt = f.attempt + 1,
                   !.polls = f.polls + 1, !.poll_code = f.code,
                   !.verify = VERIFY_SSL, !.slept = FALSE]
    ELSE [f EXCEPT !.pc = "done", !.ended = "TimedOut"]

\* The rest of the iteration, once its check-code request has ended with out after d
\* seconds.
AfterPoll(f, out, d) ==
    LET verdict == PollVerdict(out)
        seen == [f EXCEPT
                   !.responses = f.responses + 1,
                   !.last = out,
                   !.nonpending =
                       IF out.kind = "response" /\ out.status = 200
                          /\ out.json = "object" /\ out.state = "pending"
                       THEN f.nonpending
                       ELSE IF f.nonpending < 2 THEN f.nonpending + 1 ELSE 2,
                   !.had_error =
                       f.had_error \/ out.kind \in {"Timeout", "ConnectionError"},
                   !.elapsed = Tick(f.elapsed, d)]
    IN  CASE verdict = "authorized" ->
               [seen EXCEPT !.pc = "done", !.ended = EndedOf(verdict),
                            !.result = AuthResult(out, f.code)]
          [] verdict \in {"failed", "expired"} ->
               [seen EXCEPT !.pc = "done", !.ended = EndedOf(verdict)]
          [] verdict = "sleep" ->
               [seen EXCEPT !.pc = "loop", !.slept = TRUE,
                            !.elapsed = Tick(seen.elapsed, poll_interval)]
          [] verdict = "continue" ->
               [seen EXCEPT !.pc = "loop"]

\* The ways the iteration can go on from f, over the ways its request can end.
AfterPolls(f, outcomes) ==
    UNION {{AfterPoll(f, out, d) : d \in Latencies(out)} : out \in outcomes}

AuthPoll ==
    /\ flow.pc = "loop"
    /\ flow' = AfterLoopHead(flow)
    /\ UNCHANGED <<TRANSPORT_MODE, env_api_key, PLANTOS_API_KEY, req, fmt, ui, cfg>>

\* The check-code request ends and the rest of the iteration runs.
PollRespond(outcomes) ==
    /\ flow.pc = "polling"
    /\ \E out \in outcomes, d \in {0, RequestTimeout} :
         /\ d \in Latencies(out)
         /\ flow' = AfterPoll(flow, out, d)
    /\ UNCHANGED <<TRANSPORT_MODE, env_api_key, PLANTOS_API_KEY, req, fmt, ui, cfg>>

\* The installer runs before any server does: no request is in flight.
AuthInit == Init /\ TRANSPORT_MODE = "stdio" /\ env_api_key = NoKey

AuthNext ==
    \/ AuthStart
    \/ RequestCodeRespond(RequestCodeOutcomes)
    \/ AuthPoll
    \/ PollRespond(PollOutcomes)

AuthSpec == AuthInit /\ [][AuthNext]_vars

\* authenticate_user is straight-line blocking code on one thread: a request ends within
\* its timeout (with a response or an exception), a sleep ends, and the next statement
\* runs.  Nothing obliges anyone to call the function.
AuthFairSpec ==
    AuthSpec /\ WF_vars(RequestCodeRespond(RequestCodeOutcomes))
             /\ WF_vars(AuthPoll)
             /\ WF_vars(PollRespond(PollOutcomes))

\* The function called again and again (the installer's sign-in button is enabled
\* again after a failure), with a few ways for each request to end.
RerunRequestCodeOutcomes ==
    {out \in RequestCodeOutcomes :
        \/ out.kind = "Timeout"
        \/ /\ out.status = 200 /\ out.json = "object"
           /\ out.code \in {<<"CODE-A">>, <<"CODE-B">>} /\ out.url # <<>>
           /\ out.expires_in \in {<<3>>, <<6>>}}

RerunPollOutcomes ==
    {out \in PollOutcomes :
        \/ out.kind = "Timeout"
        \/ out.status = 500
        \/ out.status = 200 /\ out.state = "pending"
        \/ out.status = 200 /\ out.state = "authorized" /\ out.api_key = <<"KA">>}

RerunNext ==
    \/ AuthStart
    \/ AuthAgain
    \/ RequestCodeRespond(RerunRequestCodeOutcomes)
    \/ AuthPoll
    \/ PollRespond(RerunPollOutcomes)

RerunSpec == AuthInit /\ [][RerunNext]_vars

-----------------------------------------------------------------------------
(* server.py: a formatter applied to one argument *)

FormatInit ==
    /\ TRANSPORT_MODE = "stdio"
    /\ env_api_key = NoKey
    /\ PLANTOS_API_KEY = env_api_key
    /\ req = [s \in Slots |-> IdleFrame]
    /\ flow = IdleFlow
    /\ ui = NewInstaller
    /\ cfg = IdleConfig
    /\ \E category \in Categories : \E input \in InputsOf(category) :
         fmt = [pc |-> "called", category |-> category, input |-> input,
                result |-> Returned(<<>>)]

\* The formatter runs to its return or to the exception it raises.
FormatReturn ==
    /\ fmt.pc = "called"
    /\ fmt' = [fmt EXCEPT !.pc = "ended", !.result = Format(fmt.category, fmt.input)]
    /\ UNCHANGED <<TRANSPORT_MODE, env_api_key, PLANTOS_API_KEY, req, flow, ui, cfg>>

FormatNext == FormatReturn

FormatSpec == FormatInit /\ [][FormatNext]_vars

-----------------------------------------------------------------------------
(* Installer (src/installer/installer.py) *)

Top(u) == u.stack[Len(u.stack)]

Push(u, frame) == [u EXCEPT !.stack = Append(u.stack, frame)]

Pop(u) == [u EXCEPT !.stack = SubSeq(u.stack, 1, Len(u.stack) - 1)]

Goto(u, pc) == [u EXCEPT !.stack[Len(u.stack)].pc = pc]

\* self.update() inside update_status returns once nothing is pending; the handler
\* fn that called it then runs on.
Resumes(fn) ==
    /\ ui.stack # <<>>
    /\ Top(ui).fn = fn
    /\ ui.pending = 0
    /\ ui.timers = <<>>

\* The flows in progress: the background threads still inside authenticate_user, and
\* those whose result or error is scheduled with `after` and not delivered yet.
InProgress(u) ==
    u.running + Cardinality({i \in DOMAIN u.timers : u.timers[i].fn # "scan_configs"})

\* The user clicks on the sign-in button; the click waits in the event queue.
Click ==
    /\ ui.clicks < MaxClicks
    /\ ui' = [ui EXCEPT !.clicks = @ + 1, !.pending = @ + 1]
    /\ UNCHANGED <<TRANSPORT_MODE, env_api_key, PLANTOS_API_KEY, req, flow, fmt, cfg>>

\* A click is dispatched, by mainloop or by the update() of a suspended handler: the
\* button invokes start_signin unless it is disabled or hidden; start_signin runs to
\* the update() of its update_status.
ButtonInvoke(u) ==
    IF u.button = "normal" THEN Push(u, Frame("start_signin", "opening", NoResult))
    ELSE u

ButtonEvent ==
    /\ ui.pending > 0
    /\ ui' = ButtonInvoke([ui EXCEPT !.pending = @ - 1])
    /\ UNCHANGED <<TRANSPORT_MODE, env_api_key, PLANTOS_API_KEY, req, flow, fmt, cfg>>

\* start_signin after its update_status: disable the button, start the thread.
StartSignin ==
    /\ Resumes("start_signin")
    /\ ui' = Pop([ui EXCEPT !.button = "disabled", !.running = @ + 1])
    /\ UNCHANGED <<TRANSPORT_MODE, env_api_key, PLANTOS_API_KEY, req, flow, fmt, cfg>>

\* authenticate_in_background: the thread schedules the delivery of what
\* authenticate_user returned, or of the exception it raised.
ThreadEnds ==
    /\ ui.running > 0
    /\ \E callback \in {[fn |-> "handle_auth_result", result |-> r] : r \in FlowResults}
                          \cup {[fn |-> "handle_auth_error", result |-> NoResult]} :
         ui' = [ui EXCEPT !.running = @ - 1, !.timers = Append(@, callback)]
    /\ UNCHANGED <<TRANSPORT_MODE, env_api_key, PLANTOS_API_KEY, req, flow, fmt, cfg>>

\* handle_auth_result up to its first update_status.
EnterAuthResult(u, result) ==
    IF result # NoResult
    THEN Push([u EXCEPT !.api_key = result[1]],
              Frame("handle_auth_result", "signed_in", result))
    ELSE Push(u, Frame("handle_auth_result", "cancelled", result))

\* The callback scheduled for an exception is `lambda: self.handle_auth_error(e)`; e is
\* unbound when the except block ends, so the call of the lambda raises NameError
\* before handle_auth_error is entered, and Tk reports it and goes on.
TimerFires(u, callback) ==
    CASE callback.fn = "scan_configs" ->
           Push(u, Frame("scan_configs", "scanning", NoResult))
      [] callback.fn = "handle_auth_result" -> EnterAuthResult(u, callback.result)
      [] callback.fn = "handle_auth_error" -> u

\* An `after` callback is dispatched, by mainloop or by the update() of a suspended
\* handler.
TimerEvent ==
    /\ ui.timers # <<>>
    /\ ui' = TimerFires([ui EXCEPT !.timers = Tail(@)], Head(ui.timers))
    /\ UNCHANGED <<TRANSPORT_MODE, env_api_key, PLANTOS_API_KEY, req, flow, fmt, cfg>>

ScanConfigs ==
    /\ Resumes("scan_configs")
    /\ \/ /\ Top(ui).pc = "scanning"
          /\ \E found \in BOOLEAN :
               ui' = IF found THEN Goto(ui, "ready")
                     ELSE Pop([ui EXCEPT !.button = "disabled"])
       \/ /\ Top(ui).pc = "ready"
          /\ ui' = Pop(ui)
    /\ UNCHANGED <<TRANSPORT_MODE, env_api_key, PLANTOS_API_KEY, req, flow, fmt, cfg>>

\* What the loop over detect_configs() does: nothing is detected, or update_config
\* is called and no call succeeds, or some call succeeds.  A call passes
\* api_key=self.api_key; result is the key of the result that this
\* handle_auth_result received.
Configure(u, outcome) ==
    LET call == [api_key |-> u.api_key, result |-> Top(u).result[1]]
    IN CASE outcome = "none" -> Goto(u, "config_failed")
         [] outcome = "failed" ->
              Goto([u EXCEPT !.written = Append(@, call)], "config_failed")
         [] outcome = "configured" ->
              Goto([u EXCEPT !.written = Append(@, call)], "success")

\* handle_auth_result and the configure_assistants and show_success it calls, from
\* one update() to the next.
HandleAuthResult ==
    /\ Resumes("handle_auth_result")
    /\ \/ /\ Top(ui).pc = "cancelled"
          /\ ui' = Pop([ui EXCEPT !.button = "normal"])
       \/ /\ Top(ui).pc = "signed_in"
          /\ ui' = Goto(ui, "installing")
       \/ /\ Top(ui).pc = "installing"
          /\ \E installed \in BOOLEAN :
               ui' = Goto(ui, IF installed THEN "configuring" ELSE "install_error")
       \/ /\ Top(ui).pc = "install_error"
          /\ ui' = Pop([ui EXCEPT !.button = "normal"])
       \/ /\ Top(ui).pc = "configuring"
          /\ \E outcome \in {"none", "failed", "configured"} :
               ui' = Configure(ui, outcome)
       \/ /\ Top(ui).pc = "success"
          /\ ui' = Pop([ui EXCEPT !.button = "hidden"])
       \/ /\ Top(ui).pc = "config_failed"
          /\ ui' = Pop(ui)
    /\ UNCHANGED <<TRANSPORT_MODE, env_api_key, PLANTOS_API_KEY, req, flow, fmt, cfg>>

InstallerInit == Init /\ TRANSPORT_MODE = "stdio" /\ env_api_key = NoKey

InstallerNext ==
    \/ Click
    \/ ButtonEvent
    \/ TimerEvent
    \/ ScanConfigs
    \/ StartSignin
    \/ ThreadEnds
    \/ HandleAuthResult

InstallerSpec == InstallerInit /\ [][InstallerNext]_vars

-----------------------------------------------------------------------------
(* Configuration editor (src/installer/config_editor.py) *)

Put(members, key, value) == (key :> value) @@ members

Delete(members, key) == [k \in DOMAIN members \ {key} |-> members[k]]

\* Python's `key in j` once j is known not to be None: a key of a dict, an element
\* of a list, a substring of a str (the strings of Documents contain key only when
\* they are key).
Has(j, key) ==
    CASE j.t = "object" -> key \in DOMAIN j.m
      [] j.t = "array" -> \E i \in DOMAIN j.a : j.a[i] = JString(key)
      [] j.t = "string" -> j.s = key
      [] OTHER -> FALSE

NoPath == "None"

\* The entry update_config writes (config_editor.py:199-209).
PlantosEntry(api_key, venv_python_path) ==
    JObject([command |-> JString(IF venv_python_path # NoPath THEN venv_python_path
                                 ELSE "python3"),
             args |-> JArray(<<JString("server.py")>>),
             env |-> JObject([PLANTOS_API_KEY |-> JString(api_key),
                              PLANTOS_API_URL |-> JString("https://api.plantos.co")])])

\* An entry of the shape verify_config looks for.
HttpEntry ==
    JObject([url |-> JString("https://api.plantos.co/mcp"),
             transport |-> JObject([type |-> JString("http"),
                                    headers |-> JObject("X-API-Key" :> JString("K0"))])])

\* What a file can hold under mcpServers before the installer runs.
ServerObjects ==
    {JObject(plantos @@ other) :
        plantos \in {EmptyMembers, "plantos" :> HttpEntry,
                     "plantos" :> PlantosEntry("K0", NoPath)},
        other \in {EmptyMembers, "filesystem" :> JObject([command |-> JString("npx")])}}

Documents ==
    {JObject(servers @@ other) :
        servers \in {EmptyMembers} \cup {"mcpServers" :> v :
                           v \in ServerObjects \cup {JNull, JString("plantos"),
                                                     JArray(<<JString("plantos")>>)}},
        other \in {EmptyMembers, "theme" :> JString("dark")}}
      \cup {JNull, JArray(<<>>), JArray(<<JString("mcpServers")>>)}

Files == {Missing, Invalid} \cup {Text(layout, doc) : layout \in {"compact", "indent=2"}, doc \in Documents}

Outcome(returned, file) == [returned |-> returned, file |-> file]

LoadConfigFresh(file) == JObject(EmptyMembers)

\* update_config, config_editor.py:183-192: the document of the file, or {} for a
\* missing file and for text that json.load rejects.
LoadConfig(file) == IF file.t = "text" THEN file.doc ELSE JObject(EmptyMembers)

\* update_config.  The membership test and the two subscript assignments raise
\* TypeError, outside any try, when the document or its mcpServers is no object.
\* write: open(config_path, 'w') succeeds and json.dump writes the document ("ok"),
\* or open fails and the function answers False ("denied").
update_config(file, api_key, venv_python_path, write) ==
    LET config == LoadConfig(file)
    IN IF ~IsObject(config) THEN Outcome("raised", file)
       ELSE LET ensured == IF "mcpServers" \notin DOMAIN config.m
                           THEN Put(config.m, "mcpServers", JObject(EmptyMembers))
                           ELSE config.m
                servers == ensured["mcpServers"]
            IN IF ~IsObject(servers) THEN Outcome("raised", file)
               ELSE LET entry == PlantosEntry(api_key, venv_python_path)
                        written == JObject(Put(ensured, "mcpServers",
                                               JObject(Put(servers.m, "plantos", entry))))
                    IN IF write = "ok"
                       THEN Outcome("True", Text("indent=2", written))
                       ELSE Outcome("False", file)

\* The evaluation of `"mcpServers" in config and "plantos" in config["mcpServers"]`
\* and of the deletions raises (config_editor.py:238-243).
RemoveRaises(config) ==
    \/ config.t = "null"
    \/ /\ ~IsObject(config)
       /\ Has(config, "mcpServers")
    \/ /\ IsObject(config)
       /\ "mcpServers" \in DOMAIN config.m
       /\ LET servers == config.m["mcpServers"]
          IN \/ servers.t = "null"
             \/ ~IsObject(servers) /\ Has(servers, "plantos")

\* The document remove_plantos_config writes back when nothing raises.
Removed(config) ==
    IF /\ IsObject(config)
       /\ "mcpServers" \in DOMAIN config.m
       /\ IsObject(config.m["mcpServers"])
       /\ "plantos" \in DOMAIN config.m["mcpServers"].m
    THEN LET rest == Delete(config.m["mcpServers"].m, "plantos")
         IN IF DOMAIN rest = {} THEN JObject(Delete(config.m, "mcpServers"))
            ELSE JObject(Put(config.m, "mcpServers", JObject(rest)))
    ELSE config

remove_plantos_config(file, write) ==
    CASE file.t = "missing" -> Outcome("True", file)
      [] file.t = "invalid" -> Outcome("False", file)
      [] OTHER ->
           IF RemoveRaises(file.doc) THEN Outcome("False", file)
           ELSE IF write = "ok"
                THEN Outcome("True", Text("indent=2", Removed(file.doc)))
                ELSE Outcome("False", file)

\* verify_config: every exception is answered False, so it returns True exactly when
\* each test passes and each subscript and .get is applied to an object.
verify_config(file) ==
    /\ file.t = "text"
    /\ IsObject(file.doc)
    /\ "mcpServers" \in DOMAIN file.doc.m
    /\ LET servers == file.doc.m["mcpServers"]
       IN /\ IsObject(servers)
          /\ "plantos" \in DOMAIN servers.m
          /\ LET plantos_config == servers.m["plantos"]
             IN /\ IsObject(plantos_config)
                /\ "url" \in DOMAIN plantos_config.m
                /\ "transport" \in DOMAIN plantos_config.m
                /\ LET transport == plantos_config.m["transport"]
                   IN /\ IsObject(transport)
                      /\ "type" \in DOMAIN transport.m
                      /\ transport.m["type"] = JString("http")
                      /\ "headers" \in DOMAIN transport.m
                      /\ transport.m["headers"].t # "null"
                      /\ Has(transport.m["headers"], "X-API-Key")

Called(op, outcome) ==
    [file |-> outcome.file, before |-> cfg.file, op |-> op,
     returned |-> outcome.returned,
     prev |-> [op |-> cfg.op, returned |-> cfg.returned]]

UpdateConfig ==
    /\ \E api_key \in ApiKeys, venv_python_path \in {NoPath, "venv/bin/python3"},
          write \in {"ok", "denied"} :
         cfg' = Called("update_config",
                       update_config(cfg.file, api_key, venv_python_path, write))
    /\ UNCHANGED <<TRANSPORT_MODE, env_api_key, PLANTOS_API_KEY, req, flow, fmt, ui>>

RemovePlantosConfig ==
    /\ \E write \in {"ok", "denied"} :
         cfg' = Called("remove_plantos_config", remove_plantos_config(cfg.file, write))
    /\ UNCHANGED <<TRANSPORT_MODE, env_api_key, PLANTOS_API_KEY, req, flow, fmt, ui>>

VerifyConfig ==
    /\ cfg' = Called("verify_config",
                     Outcome(IF verify_config(cfg.file) THEN "True" ELSE "False",
                             cfg.file))
    /\ UNCHANGED <<TRANSPORT_MODE, env_api_key, PLANTOS_API_KEY, req, flow, fmt, ui>>

ConfigInit ==
    /\ TRANSPORT_MODE = "stdio"
    /\ env_api_key = NoKey
    /\ PLANTOS_API_KEY = env_api_key
    /\ req = [s \in Slots |-> IdleFrame]
    /\ flow = IdleFlow
    /\ fmt = NoFormatCall
    /\ ui = NewInstaller
    /\ \E file \in Files : cfg = [IdleConfig EXCEPT !.file = file, !.before = file]

ConfigNext ==
    \/ UpdateConfig
    \/ RemovePlantosConfig
    \/ VerifyConfig

ConfigSpec == ConfigInit /\ [][ConfigNext]_vars

-----------------------------------------------------------------------------
(* Properties *)

\* The arguments handle_call_tool works on for the request in slot s.
ArgsOf(s) == NormArgs(req[s].arguments)

\* The request in slot s has reached the gateway (handle_call_tool was called).
Invoked(s) == req[s].endpoint = "call_tool" /\ req[s].invoked

Finished(s) == Invoked(s) /\ req[s].pc = "done"

\* The credential the invocation in slot s is made with: the one of the channel
\* (stdio) or the one in the request's header (http).
CredentialOf(s) == IF TRANSPORT_MODE = "stdio" THEN env_api_key ELSE req[s].api_key

\* The tools whose schema declares coordinates.
CoordTools == {Catalog[i].name : i \in {j \in 1..Len(Catalog) : Catalog[j].coords}}

OutOfRange(a) ==
    \/ a.latitude # Absent /\ (a.latitude[1] < LatMin \/ a.latitude[1] > LatMax)
    \/ a.longitude # Absent /\ (a.longitude[1] < LonMin \/ a.longitude[1] > LonMax)

MissingRequired(name, a) == {k \in Descriptor(name).required : a[k] = Absent}

SchemaValid(name, a) ==
    /\ MissingRequired(name, a) = {}
    /\ name \in CoordTools => ~OutOfRange(a)

\* The fixed mapping of tools to backend endpoints (section 6 of the specification).
BackendMapping ==
    [analyze_farm_location |-> <<"POST", "/api/v1/analyze-location">>,
     get_soil_data |-> <<"GET", "/api/v1/soil-data">>,
     get_weather_data |-> <<"GET", "/api/v1/weather-data">>,
     get_market_data |-> <<"GET", "/api/v1/market-data">>,
     get_market_summary |-> <<"GET", "/api/v1/market-summary">>,
     chat_with_agricultural_advisor |-> <<"POST", "/api/v1/chat">>,
     get_api_health |-> <<"GET", "/api/v1/health">>]

\* C1: every backend call issued for a network call-tool request carries the
\* credential of that request's own X-API-Key header, whatever other requests are
\* in flight.
C1_OwnCredentialOnly ==
    \A s \in Slots :
        (TRANSPORT_MODE = "http" /\ Invoked(s)) =>
            \A i \in 1..Len(req[s].calls) : req[s].calls[i].key = req[s].api_key

\* C2: an invocation whose name is not in the catalog never issues a backend call
\* and ends with the single text "Unknown tool: <name>".
C2_UnknownToolNoCall ==
    \A s \in Slots :
        (Invoked(s) /\ req[s].name \notin CatalogNames) =>
            /\ req[s].calls = <<>>
            /\ req[s].pc # "await_backend"
            /\ req[s].pc = "done" =>
                  /\ ~req[s].raised
                  /\ Len(req[s].content) = 1
                  /\ req[s].content[1].form = "Unknown tool"
                  /\ req[s].content[1].tool = req[s].name

C2_Witness ==
    \E s \in Slots :
        /\ Finished(s)
        /\ req[s].name = "bogus_tool"
        /\ req[s].arguments # <<>>
        /\ req[s].content = <<UnknownToolText("bogus_tool")>>
        /\ req[s].calls = <<>>

\* C3: an invocation of a tool with coordinates whose latitude or longitude is out
\* of range issues no backend call and ends with a failure.
C3_OutOfRangeRejected ==
    \A s \in Slots :
        (Invoked(s) /\ req[s].name \in CoordTools /\ OutOfRange(ArgsOf(s))) =>
            /\ req[s].calls = <<>>
            /\ req[s].pc = "done" =>
                  /\ Len(req[s].content) = 1
                  /\ req[s].content[1].form # "Content"

\* C4: an invocation of a catalog tool that omits a field its schema requires
\* issues no backend call and ends with a failure text that names a required
\* field the arguments lack.
C4_MissingRequiredRejected ==
    \A s \in Slots :
        (Invoked(s) /\ req[s].name \in CatalogNames
            /\ MissingRequired(req[s].name, ArgsOf(s)) # {}) =>
            /\ req[s].calls = <<>>
            /\ req[s].pc # "await_backend"
            /\ req[s].pc = "done" =>
                  /\ ~req[s].raised
                  /\ Len(req[s].content) = 1
                  /\ req[s].content[1].form = "Error executing tool"
                  /\ req[s].content[1].detail \in MissingRequired(req[s].name, ArgsOf(s))

C4_Witness ==
    \E s \in Slots :
        /\ Finished(s)
        /\ req[s].name = "get_market_data"
        /\ ArgsOf(s).crops = Absent
        /\ ArgsOf(s).latitude # Absent
        /\ req[s].content = <<ExecErrorText("crops")>>
        /\ req[s].calls = <<>>

\* C5: an invocation of a catalog tool with schema-valid arguments, made with a
\* credential, issues exactly one backend call, with the method and path the
\* mapping gives the tool and with that credential as its X-API-Key.
C5_ValidCallMapped ==
    \A s \in Slots :
        (Invoked(s) /\ req[s].name \in CatalogNames
            /\ SchemaValid(req[s].name, ArgsOf(s))
            /\ CredentialOf(s) # NoKey
            /\ req[s].pc \in {"await_backend", "done"}) =>
            /\ Len(req[s].calls) = 1
            /\ <<req[s].calls[1].method, req[s].calls[1].path>> = BackendMapping[req[s].name]
            /\ req[s].calls[1].key = CredentialOf(s)

C5_Witness ==
    \E s \in Slots :
        /\ Finished(s)
        /\ req[s].name = "get_weather_data"
        /\ SchemaValid(req[s].name, ArgsOf(s))
        /\ req[s].outcome.status = 200
        /\ Len(req[s].calls) = 1
        /\ req[s].calls[1].path = "/api/v1/weather-data"
        /\ req[s].calls[1].key = "K1"

\* C6: no invocation issues more than one backend call, however its call ends.
C6_AtMostOneCall == \A s \in Slots : Len(req[s].calls) <= 1

C6_Witness ==
    \E s \in Slots :
        /\ Finished(s)
        /\ req[s].outcome.kind = "TimeoutException"
        /\ Len(req[s].calls) = 1

\* C7: a backend answer 401 or 403 ends the invocation with the authentication
\* text carrying the response body, never with "Error calling Plantos API".
C7_AuthStatusRendered ==
    \A s \in Slots :
        (Finished(s) /\ req[s].outcome.kind = "response"
            /\ req[s].outcome.status \in {401, 403}) =>
            /\ ~req[s].raised
            /\ Len(req[s].content) = 1
            /\ req[s].content[1].form = "Authentication Error"
            /\ req[s].content[1].detail = req[s].outcome.body

C7_Witness ==
    \E s \in Slots :
        /\ Finished(s)
        /\ req[s].outcome.kind = "response"
        /\ req[s].outcome.status = 403
        /\ req[s].content = <<AuthErrorText(req[s].outcome.body)>>

\* C8: a backend answer with a status outside 2xx other than 401 and 403 ends the
\* invocation with "Error calling Plantos API" carrying that status and the raw body.
C8_OtherStatusRendered ==
    \A s \in Slots :
        (Finished(s) /\ req[s].outcome.kind = "response"
            /\ (req[s].outcome.status < 200 \/ req[s].outcome.status > 299)
            /\ req[s].outcome.status \notin {401, 403}) =>
            /\ ~req[s].raised
            /\ Len(req[s].content) = 1
            /\ req[s].content[1].form = "Error calling Plantos API"
            /\ req[s].content[1].status = req[s].outcome.status
            /\ req[s].content[1].detail = req[s].outcome.body

C8_Witness ==
    \E s \in Slots :
        /\ Finished(s)
        /\ req[s].outcome.kind = "response"
        /\ req[s].outcome.status = 500
        /\ req[s].outcome.body = "not_json"
        /\ req[s].content[1].status = 500
        /\ req[s].content[1].detail = "not_json"

\* C9: every invocation that ends, ends by returning a non-empty list of texts;
\* none ends by raising to the transport.
C9_AlwaysReturnsText ==
    \A s \in Slots :
        Finished(s) =>
            /\ ~req[s].raised
            /\ Len(req[s].content) >= 1
            /\ \A i \in 1..Len(req[s].content) : req[s].content[i].form # ""

C9_Witness ==
    \E s \in Slots :
        /\ Finished(s)
        /\ req[s].arguments = <<>>
        /\ req[s].outcome.status = 200
        /\ req[s].outcome.body = "array"
        /\ ~req[s].raised
        /\ req[s].content[1].form = "Error executing tool"

\* C10: a network request without an X-API-Key header, or with an empty one, ends
\* at once with status 401: the gateway is not invoked, no tool list is produced,
\* no backend call is issued, and the global credential keeps its value.
C10_MissingKeyRejected ==
    [][\A s \in Slots :
          (req[s].pc = "idle" /\ req'[s].pc # "idle" /\ req'[s].api_key \in {NoKey, ""}) =>
              /\ req'[s].pc = "done"
              /\ req'[s].status = 401
              /\ ~req'[s].invoked
              /\ req'[s].calls = <<>>
              /\ req'[s].tools = <<>>
              /\ PLANTOS_API_KEY' = PLANTOS_API_KEY]_vars

C10_Witness ==
    \E s, t \in Slots :
        /\ s # t
        /\ req[s].pc = "done"
        /\ req[s].endpoint = "call_tool"
        /\ req[s].api_key = ""
        /\ req[s].status = 401
        /\ req[t].pc = "await_backend"
        /\ PLANTOS_API_KEY = req[t].api_key

-----------------------------------------------------------------------------
(* Properties of the device-authorization flow *)

\* The request-code step succeeded in this call: the loop was set up.
LoopEntered == flow.code # ""

\* The attempt bound, from what the server sent: floor(expires_in / poll_interval),
\* expires_in being 300 when the response has none.
AttemptBound ==
    (IF flow.rc.expires_in = <<>> THEN DefaultExpiresIn ELSE flow.rc.expires_in[1])
        \div poll_interval

\* The last poll ended with status 200 and the JSON status `state`.
LastState(state) ==
    /\ flow.responses >= 1
    /\ flow.last.kind = "response"
    /\ flow.last.status = 200
    /\ flow.last.json = "object"
    /\ flow.last.state = state

\* The last poll brought `authorized` together with a non-empty credential.
LastAuthorizedWithKey == LastState("authorized") /\ flow.last.api_key \notin {<<>>, <<"">>}

\* The flow has returned `ended` and polls no more.
Ended(ended) ==
    /\ flow.pc = "done"
    /\ flow.ended = ended
    /\ flow.polls = flow.responses

\* C11: when the first k-1 polls end pending and the k-th brings authorized with a
\* credential, the flow has sent exactly k polls, has ended Authorized and returns
\* exactly that credential.
C11_AuthorizedAfterPending ==
    (LastAuthorizedWithKey /\ flow.nonpending = 1)
        => /\ Ended("Authorized")
           /\ flow.polls <= AttemptBound
           /\ Len(flow.result) = 1
           /\ flow.result[1].api_key = flow.last.api_key[1]

C11_Witness ==
    /\ LastAuthorizedWithKey
    /\ flow.nonpending = 1
    /\ flow.polls = 3
    /\ flow.result # <<>>
    /\ flow.result[1].api_key = "KB"

\* C12: when every poll ends pending, the flow ends TimedOut without a credential after
\* at most floor(expires_in / poll_interval) polls, expires_in being 300 when the server
\* sent none.
C12_AllPendingTimesOut ==
    (LoopEntered /\ flow.nonpending = 0)
        => /\ flow.polls <= AttemptBound
           /\ flow.pc = "done" => (Ended("TimedOut") /\ flow.result = <<>>)

C12_Witness ==
    /\ LoopEntered
    /\ flow.nonpending = 0
    /\ flow.rc.expires_in = <<>>
    /\ Ended("TimedOut")
    /\ flow.polls = DefaultExpiresIn \div poll_interval

\* C13: a poll that ends with status expired, or with HTTP 404, ends the flow Expired at
\* once: no further poll, no credential.
C13_ExpiredEndsFlow ==
    (LastState("expired") \/ (flow.responses >= 1 /\ flow.last.status = 404))
        => (Ended("Expired") /\ flow.result = <<>>)

C13_Witness ==
    /\ flow.last.status = 404
    /\ flow.responses = 2
    /\ Ended("Expired")
    /\ flow.attempt < flow.max_attempts

\* C14: no poll is sent after the session has expired on the wall clock (sleeps and the
\* waits for poll responses counted): a request in flight was sent within expires_in
\* seconds, and a flow that is past expires_in at the head of its loop sends no further
\* poll, it ends TimedOut.
C14_NoPollAfterExpiry ==
    /\ flow.pc = "polling" => flow.elapsed <= flow.expires_in
    /\ (flow.pc = "loop" /\ flow.elapsed > flow.expires_in)
           => flow.attempt >= flow.max_attempts

\* C15: whatever the polls end with, the flow sends at most
\* floor(expires_in / poll_interval) of them and then has ended: a flow that was
\* started reaches a terminal state.
C15_EndsWithinAttemptBound ==
    /\ [](flow.polls <= AttemptBound /\ flow.polls <= flow.max_attempts)
    /\ (flow.pc = "requesting" ~> flow.pc = "done")

C15_Witness ==
    /\ Ended("TimedOut")
    /\ flow.polls = AttemptBound
    /\ flow.polls = 3
    /\ flow.nonpending = 2
    /\ flow.had_error

Terminal == {"Authorized", "Expired", "TimedOut", "Failed"}

\* C16: a flow that has returned is in exactly one of Authorized, Expired, TimedOut and
\* Failed, holds a credential only when Authorized, and stays as it is: it sends no
\* request any more.  No poll is sent unless the request-code step has succeeded, and
\* that step sends one request.
C16_OneTerminalState ==
    /\ [](/\ flow.pc = "done" <=> flow.ended \in Terminal
          /\ flow.ended \in Terminal \cup {""}
          /\ flow.result # <<>> <=> flow.ended = "Authorized"
          /\ flow.request_codes <= 1
          /\ (flow.pc \in {"loop", "polling"} \/ flow.polls > 0)
                => /\ flow.rc.kind = "response" /\ flow.rc.status = 200
                   /\ flow.rc.code \notin {<<>>, <<"">>}
                   /\ flow.rc.url \notin {<<>>, <<"">>})
    /\ [][flow.pc = "done" => flow' = flow]_vars

C16_Witness ==
    /\ flow.pc = "done"
    /\ flow.ended = "Failed"
    /\ flow.polls = 2
    /\ flow.request_codes = 1
    /\ flow.result = <<>>

\* C17: a poll that ends `authorized` without a credential (absent or empty) ends the
\* flow Failed at once: no credential is returned and no further poll is sent.
C17_AuthorizedWithoutKeyFails ==
    (LastState("authorized") /\ flow.last.api_key \in {<<>>, <<"">>})
        => (Ended("Failed") /\ flow.result = <<>>)

C17_Witness ==
    /\ LastState("authorized")
    /\ flow.last.api_key = <<"">>
    /\ flow.responses = 2
    /\ Ended("Failed")

\* The last poll ended with a Timeout or a ConnectionError.
LastFailedInTransit ==
    flow.responses >= 1 /\ flow.last.kind \in {"Timeout", "ConnectionError"}

\* C18: a poll that ends with a timeout or a connection failure does not end the flow:
\* the flow sleeps one interval and goes to the next attempt (it ends, TimedOut, only
\* when that attempt is beyond the attempt bound), and a later `authorized` with a
\* credential still ends it Authorized.
C18_TransientFailureGoesOn ==
    /\ LastFailedInTransit
          => \/ flow.pc = "loop" /\ flow.slept
             \/ flow.pc = "polling" /\ flow.polls = flow.responses + 1
             \/ Ended("TimedOut") /\ flow.slept /\ flow.attempt = flow.max_attempts
    /\ (flow.had_error /\ LastAuthorizedWithKey)
          => (Ended("Authorized") /\ flow.result[1].api_key = flow.last.api_key[1])

C18_Witness ==
    /\ flow.had_error
    /\ flow.nonpending = 2
    /\ LastAuthorizedWithKey
    /\ Ended("Authorized")

\* The request-code request has ended without giving the flow what it needs.
RequestCodeFailed ==
    /\ flow.rc.kind # ""
    /\ \/ flow.rc.kind # "response"
       \/ flow.rc.status # 200
       \/ flow.rc.json # "object"
       \/ flow.rc.code \in {<<>>, <<"">>}
       \/ flow.rc.url \in {<<>>, <<"">>}

\* C19: when the request-code request fails in transit, or is answered with a status
\* other than 200, or with a body lacking code or verification_url, the flow ends Failed
\* having sent exactly that one request: the verification URL is never opened and no
\* poll is sent.
C19_RequestCodeFailureFails ==
    RequestCodeFailed
        => /\ Ended("Failed")
           /\ flow.result = <<>>
           /\ flow.request_codes = 1
           /\ flow.browser = "not_called"
           /\ flow.polls = 0

C19_Witness ==
    /\ flow.rc.status = 200
    /\ flow.rc.code = <<"CODE-A">>
    /\ flow.rc.url = <<>>
    /\ Ended("Failed")
    /\ flow.browser = "not_called"

-----------------------------------------------------------------------------
(* Properties of the stdio channel *)

\* C20: in stdio mode the credential is fixed: the global holds the value read from the
\* environment at start-up, every backend call carries that value, and no step writes
\* the global.
C20_StdioCredentialFixed ==
    /\ [](TRANSPORT_MODE = "stdio"
            => /\ PLANTOS_API_KEY = env_api_key
               /\ \A s \in Slots : \A i \in 1..Len(req[s].calls) :
                      req[s].calls[i].key = env_api_key)
    /\ [][TRANSPORT_MODE = "stdio" => PLANTOS_API_KEY' = PLANTOS_API_KEY]_vars

C20_Witness ==
    /\ TRANSPORT_MODE = "stdio"
    /\ env_api_key = "K0"
    /\ req[1].pc = "done"
    /\ Len(req[1].calls) = 1
    /\ req[1].calls[1].key = "K0"

-----------------------------------------------------------------------------
(* Properties of the outbound requests *)

\* C21: every outbound request is made with certificate verification enabled: the
\* request-code and check-code requests of the device flow and every backend call pass
\* a verify argument that does not switch verification off.
C21_VerificationNeverDisabled ==
    /\ flow.request_codes + flow.polls > 0 => flow.verify # "False"
    /\ \A s \in Slots : \A i \in 1..Len(req[s].calls) : req[s].calls[i].verify # "False"

-----------------------------------------------------------------------------
(* Properties of the formatters *)

\* The argument has no usable field: an object whose known fields are all absent or
\* null, or a list (the empty one too) of elements that are no objects or are objects
\* of that kind.
NoUsableField(category, input) ==
    IF category \in {"soil", "weather"}
    THEN \A k \in DOMAIN input.get : input.get[k] \in {"absent", "null"}
    ELSE \A i \in 1..Len(input) :
            \/ input[i].json # "object"
            \/ input[i].crop_type \in {"absent", "null"}
                  /\ input[i].numbers \in {"absent", "null"}

NoDataMarkers ==
    {"*No soil data available*", "*Soil data incomplete*",
     "*No weather data available*", "*Weather data incomplete*",
     "*No predictions available*", "*No market data available*",
     "*No economic analysis available*", "*No recommendations available*"}

\* C22: a formatter handed an argument without any usable field returns a no-data
\* marker: it does not raise and does not return the empty string.
C22_NoDataMarker ==
    (fmt.pc = "ended" /\ NoUsableField(fmt.category, fmt.input))
        => /\ ~fmt.result.raised
           /\ fmt.result.lines \notin {<<>>, <<"">>}
           /\ Len(fmt.result.lines) = 1
           /\ fmt.result.lines[1] \in NoDataMarkers

-----------------------------------------------------------------------------
(* Properties of the two transports *)

\* What the local-channel handler, handle_call_tool(name, arguments), does when the
\* global holds key and its backend call, if it sends one, ends with out: the backend
\* calls it sends and the text blocks it returns.
LocalHandler(name, arguments, key, out) ==
    LET b == BeforeAwait(name, NormArgs(arguments), key, <<>>)
        r == IF b.sent THEN ExceptClauses(AfterResponse(Branch(name), out))
             ELSE ExceptClauses(b.r)
    IN  [calls |-> b.calls, content |-> IF r.raised THEN <<>> ELSE <<r.text>>]

\* The call-tool request in slot s has ended with the content and the backend calls of
\* the local-channel handler for the same name, arguments, credential and backend
\* response.
SameAsLocalHandler(s) ==
    LET local == LocalHandler(req[s].name, req[s].arguments, CredentialOf(s), req[s].outcome)
    IN  /\ req[s].content = local.content
        /\ req[s].calls = local.calls

\* C23 as stated: every call-tool request, handled alone, ends through either transport
\* with the content and the backend call of the local-channel handler.
C23_SameResultBothTransports ==
    \A s \in Slots :
        (req[s].endpoint = "call_tool" /\ req[s].pc = "done") => SameAsLocalHandler(s)

\* C23 amended: the same, for the requests the network endpoint admits: those with a
\* credential (its header is there and is not empty) and a non-empty tool name.
C23_SameResultWhenAdmitted ==
    \A s \in Slots :
        (req[s].endpoint = "call_tool" /\ req[s].pc = "done"
            /\ CredentialOf(s) \notin {NoKey, ""} /\ req[s].name # "")
          => SameAsLocalHandler(s)

C23_Witness ==
    /\ TRANSPORT_MODE = "http"
    /\ req[1].endpoint = "call_tool"
    /\ req[1].pc = "done"
    /\ req[1].name = "get_soil_data"
    /\ req[1].api_key = "K2"
    /\ req[1].outcome.status = 200
    /\ req[1].outcome.body = "full"
    /\ Len(req[1].calls) = 1
    /\ Len(req[1].content) = 1
    /\ SameAsLocalHandler(1)

\* C24: in the network transport no call-tool request is touched by what happens to
\* another one (its failure, its slowness, its cancellation): each request that reaches
\* the handler sends its backend call with its own credential and is answered as it is
\* when handled alone.
C24_RequestsIndependent ==
    \A s \in Slots :
        (TRANSPORT_MODE = "http" /\ Invoked(s) /\ req[s].pc = "done")
          => SameAsLocalHandler(s)

\* No handler is running: every request received so far has returned, raised or been
\* cancelled.
AllCompleted == \A s \in Slots : req[s].pc \in {"idle", "done"}

\* C25: whenever all the requests received so far have completed, in whatever order
\* they ran, the global credential is back at the value it had before the first of
\* them, the one read from the environment; no request's credential stays installed.
C25_CredentialRestored == AllCompleted => PLANTOS_API_KEY = env_api_key

\* The handler's result in slot s is a failure: it raised, or the text it returned is
\* one of the error texts (unknown tool, authentication error, API error, execution
\* error) rather than rendered content.
IsFailure(s) ==
    \/ req[s].raised
    \/ \E i \in 1..Len(req[s].content) : req[s].content[i].form # "Content"

\* C26: the response of the network call-tool endpoint has isError = true exactly when
\* the invocation's result is a failure, and isError = false exactly when it is content.
C26_IsErrorMarksFailure ==
    \A s \in Slots :
        (TRANSPORT_MODE = "http" /\ Invoked(s) /\ req[s].pc = "done")
          => (req[s].isError <=> IsFailure(s))

-----------------------------------------------------------------------------
(* More properties of the device-authorization flow *)

\* C27: between two consecutive polls the flow sleeps one poll interval, whatever the
\* earlier poll ended with: a flow that is back at the head of its loop after a poll,
\* with an attempt left, has slept since that poll.
C27_SleepsBetweenPolls ==
    (flow.pc = "loop" /\ flow.responses >= 1 /\ flow.attempt < flow.max_attempts)
        => flow.slept

\* C28: authenticate_user returns a credential only when a poll of this flow ended with
\* HTTP 200, status authorized and a non-empty api_key; the api_key returned is that
\* value and the code returned is the code issued to this flow.  A flow that ended
\* Expired, TimedOut or Failed returns None.
C28_CredentialOnlyWhenAuthorized ==
    /\ flow.result # <<>>
          => /\ LastAuthorizedWithKey
             /\ Ended("Authorized")
             /\ flow.result[1].api_key = flow.last.api_key[1]
             /\ flow.result[1].code = flow.rc.code[1]
    /\ (flow.pc = "done" /\ flow.ended \in {"Expired", "TimedOut", "Failed"})
          => flow.result = <<>>

C28_Witness ==
    /\ Ended("Authorized")
    /\ flow.rc.code = <<"CODE-B">>
    /\ flow.result # <<>>
    /\ flow.result[1].code = "CODE-B"
    /\ flow.result[1].api_key = "KA"
    /\ flow.polls = 2

\* C29: every call of authenticate_user sends its own request-code request and polls
\* only with the code that request brought; the code, the expiry and the attempt count
\* of an earlier call are not used again: the loop of each call starts at attempt zero
\* with the bound computed from its own expires_in.
C29_RunsShareNothing ==
    /\ flow.runs >= 1 => flow.request_codes = 1
    /\ flow.pc \in {"loop", "polling"}
          => /\ flow.code = flow.rc.code[1]
             /\ flow.expires_in = flow.rc.expires_in[1]
             /\ flow.max_attempts = AttemptBound
    /\ flow.polls >= 1 => flow.poll_code = flow.rc.code[1]
    /\ flow.attempt = flow.polls
    /\ flow.pc = "requesting" => (flow.code = "" /\ flow.polls = 0 /\ flow.result = <<>>)

C29_Witness ==
    /\ flow.runs = 2
    /\ flow.pc = "polling"
    /\ flow.earlier = [code |-> "CODE-A", expires_in |-> 6, attempt |-> 2]
    /\ flow.poll_code = "CODE-B"
    /\ flow.expires_in = 3
    /\ flow.attempt = 1

\* The request-code request was answered with what the flow needs.
RequestCodeSucceeded ==
    /\ flow.rc.kind = "response"
    /\ flow.rc.status = 200
    /\ flow.rc.json = "object"
    /\ flow.rc.code \notin {<<>>, <<"">>}
    /\ flow.rc.url \notin {<<>>, <<"">>}

\* C30: after a successful request-code response the flow is in its polling loop,
\* whether the browser opened or not: it does not end before it has polled unless its
\* expires_in leaves it no attempt.  The polls do not depend on the browser: every step
\* of the loop leaves the browser's outcome alone and is the step the flow takes from
\* the same locals with the other outcome.
C30_BrowserFailureGoesOn ==
    /\ [](RequestCodeSucceeded
            => /\ LoopEntered
               /\ flow.browser \in {"opened", "failed"}
               /\ flow.max_attempts = AttemptBound
               /\ flow.polls = 0 => \/ flow.pc = "loop"
                                    \/ Ended("TimedOut") /\ flow.max_attempts = 0)
    /\ [][\A b \in {"opened", "failed"} :
            /\ flow.pc = "loop"
                  => [flow' EXCEPT !.browser = b] = AfterLoopHead([flow EXCEPT !.browser = b])
            /\ flow.pc = "polling"
                  => [flow' EXCEPT !.browser = b]
                        \in AfterPolls([flow EXCEPT !.browser = b], PollOutcomes)]_vars

C30_Witness ==
    /\ flow.browser = "failed"
    /\ flow.polls = 2
    /\ Ended("Authorized")

-----------------------------------------------------------------------------
(* Properties of the catalog and of the queries *)

\* The names in the list handle_list_tools returns.
ListedNames == {ListedTools[i] : i \in 1..Len(ListedTools)}

\* C31: the names handle_list_tools lists are pairwise distinct, and they are the names
\* handle_call_tool has a branch for: an invocation of a listed name with valid
\* arguments sends a backend call, an invocation of any other name sends none.
C31_CatalogMatchesDispatch ==
    /\ \A i, j \in 1..Len(ListedTools) : ListedTools[i] = ListedTools[j] => i = j
    /\ \A s \in Slots :
          (req[s].endpoint = "list_tools" /\ req[s].pc = "done" /\ req[s].status # 401)
             => req[s].tools = ListedTools
    /\ \A s \in Slots :
          (Invoked(s) /\ req[s].pc \in {"await_backend", "done"} /\ CredentialOf(s) # NoKey)
             => IF req[s].name \in ListedNames
                THEN SchemaValid(req[s].name, ArgsOf(s)) => Len(req[s].calls) = 1
                ELSE req[s].calls = <<>>

C31_Witness ==
    /\ Invoked(1)
    /\ req[1].name = "get_api_health"
    /\ req[1].name \in ListedNames
    /\ req[1].pc = "await_backend"
    /\ Len(req[1].calls) = 1
    /\ req[1].calls[1].path = "/api/v1/health"

\* C32: the query of get_market_data and of get_market_summary has latitude exactly
\* when the arguments have it, and longitude likewise, each with the value given;
\* get_market_data's query always has crops; the query has nothing else, so
\* get_market_summary without arguments sends an empty query.
C32_MarketQueryFollowsArguments ==
    \A s \in Slots :
        (Invoked(s) /\ req[s].name \in {"get_market_data", "get_market_summary"}
            /\ Len(req[s].calls) >= 1)
          => LET q == req[s].calls[1].params
                 a == ArgsOf(s)
             IN  /\ req[s].calls[1].carrier = "params"
                 /\ q.latitude = a.latitude
                 /\ q.longitude = a.longitude
                 /\ q.message = Absent
                 /\ q.context = Absent
                 /\ IF req[s].name = "get_market_data"
                    THEN q.crops = a.crops /\ q.crops # Absent
                    ELSE q.crops = Absent
                 /\ (req[s].name = "get_market_summary" /\ req[s].arguments = <<>>)
                       => q = EmptyArgs

C32_Witness ==
    /\ Invoked(1)
    /\ req[1].name = "get_market_data"
    /\ ArgsOf(1).latitude = Absent
    /\ ArgsOf(1).longitude = <<10>>
    /\ Len(req[1].calls) = 1
    /\ req[1].calls[1].params.longitude = <<10>>
    /\ req[1].calls[1].params.latitude = Absent
    /\ req[1].calls[1].params.crops = <<"corn,wheat">>

\* C33: a network call-tool request whose body has no name (absent or empty) is
\* answered 400 before any dispatch: handle_call_tool is not called, no backend call is
\* sent, and the step that rejects it leaves the global credential as it is.
C33_NamelessRequestRejected ==
    /\ [](\A s \in Slots :
            (TRANSPORT_MODE = "http" /\ req[s].endpoint = "call_tool"
                /\ req[s].pc \notin {"idle", "body"} /\ req[s].status # 401
                /\ req[s].name = "")
              => /\ req[s].pc = "done"
                 /\ req[s].status = 400
                 /\ ~req[s].invoked
                 /\ req[s].calls = <<>>
                 /\ req[s].original_key = Unset)
    /\ [][\A s \in Slots :
            (req[s].pc = "body" /\ req'[s].pc # "body" /\ req'[s].name = "")
              => PLANTOS_API_KEY' = PLANTOS_API_KEY]_vars

C33_Witness ==
    /\ TRANSPORT_MODE = "http"
    /\ req[1].endpoint = "call_tool"
    /\ req[1].api_key = "K2"
    /\ req[1].status = 400
    /\ req[1].pc = "done"
    /\ req[2].pc = "await_backend"
    /\ PLANTOS_API_KEY = "K1"

-----------------------------------------------------------------------------
(* Properties of the installer *)

\* C34: in the installer at most one device-authorization flow is in progress at any
\* time, and while one is in progress the sign-in button is disabled: it is enabled
\* again only after the flow has delivered its result or error.
C34_OneFlowInProgress ==
    /\ InProgress(ui) <= 1
    /\ InProgress(ui) = 1 => ui.button = "disabled"

\* C35: update_config is called only after handle_auth_result has received a non-empty
\* result, and each call passes the api_key of the result that the calling
\* handle_auth_result received.
C35_ConfigWrittenWithReceivedKey ==
    /\ ui.written # <<>> => ui.api_key # NoKey
    /\ \A i \in DOMAIN ui.written : ui.written[i].api_key = ui.written[i].result

-----------------------------------------------------------------------------
(* Properties of the configuration editor *)

\* C36: when update_config has returned True for a path, the verify_config that
\* follows on the same path returns True.
C36_VerifiedAfterUpdate ==
    (cfg.op = "verify_config"
        /\ cfg.prev = [op |-> "update_config", returned |-> "True"])
      => cfg.returned = "True"

\* The entries of mcpServers in a document: those of the object, none when the
\* document has no mcpServers.
ServersOf(doc) ==
    IF "mcpServers" \in DOMAIN doc.m THEN doc.m["mcpServers"].m ELSE EmptyMembers

\* Every member but key is the same in both.
SameBut(before, after, key) ==
    /\ DOMAIN after \ {key} = DOMAIN before \ {key}
    /\ \A k \in DOMAIN before \ {key} : after[k] = before[k]

\* C37: on a file that holds valid JSON, update_config changes nothing but the plantos
\* entry of mcpServers (every other top-level key and every other entry stays as it
\* was); remove_plantos_config deletes nothing but the plantos entry, and mcpServers
\* itself only when the deletion empties it; and a second remove_plantos_config after
\* one that succeeded leaves the file as it is.
C37_OnlyPlantosEntryChanges ==
    /\ [](cfg.before.t = "text" =>
            /\ cfg.op = "update_config" =>
                 \/ cfg.file = cfg.before
                 \/ /\ cfg.returned = "True"
                    /\ cfg.file.t = "text"
                    /\ IsObject(cfg.before.doc)
                    /\ IsObject(cfg.file.doc)
                    /\ SameBut(cfg.before.doc.m, cfg.file.doc.m, "mcpServers")
                    /\ "mcpServers" \in DOMAIN cfg.file.doc.m
                    /\ IsObject(cfg.file.doc.m["mcpServers"])
                    /\ "plantos" \in DOMAIN ServersOf(cfg.file.doc)
                    /\ SameBut(ServersOf(cfg.before.doc), ServersOf(cfg.file.doc),
                               "plantos")
            /\ cfg.op = "remove_plantos_config" =>
                 \/ cfg.file.t = "text" /\ cfg.file.doc = cfg.before.doc
                 \/ /\ cfg.returned = "True"
                    /\ cfg.file.t = "text"
                    /\ IsObject(cfg.before.doc)
                    /\ IsObject(cfg.file.doc)
                    /\ SameBut(cfg.before.doc.m, cfg.file.doc.m, "mcpServers")
                    /\ "plantos" \in DOMAIN ServersOf(cfg.before.doc)
                    /\ "plantos" \notin DOMAIN ServersOf(cfg.file.doc)
                    /\ SameBut(ServersOf(cfg.before.doc), ServersOf(cfg.file.doc),
                               "plantos")
                    /\ "mcpServers" \notin DOMAIN cfg.file.doc.m
                         <=> DOMAIN ServersOf(cfg.before.doc) = {"plantos"})
    /\ [][(cfg.op = "remove_plantos_config" /\ cfg.returned = "True"
             /\ cfg'.op = "remove_plantos_config")
            => cfg'.file = cfg.file]_vars

C37_Witness ==
    /\ cfg.op = "update_config"
    /\ cfg.returned = "True"
    /\ cfg.before.t = "text"
    /\ IsObject(cfg.before.doc)
    /\ "theme" \in DOMAIN cfg.before.doc.m
    /\ DOMAIN ServersOf(cfg.before.doc) = {"filesystem"}
    /\ DOMAIN ServersOf(cfg.file.doc) = {"plantos", "filesystem"}
    /\ cfg.file.doc # cfg.before.doc
    /\ cfg.prev = [op |-> "remove_plantos_config", returned |-> "True"]

====
